---- MODULE Spec2Model ----
(***************************************************************************)
(* GravlLift/utilities: the request-coalescing MemoryCache                 *)
(* (src/src/cache/memory-cache.ts) with its AbortSignalManager             *)
(* (src/src/abort-signal-manager.ts), and the NoCache and LayerCache       *)
(* classes of src/src/cache/layer-cache.ts.                                *)
(*                                                                         *)
(* One cache instance, a fixed set of caller tokens (AbortSignals), and    *)
(* the host's single-threaded event loop: every action below is one        *)
(* synchronous call or one promise reaction.                               *)
(***************************************************************************)
EXTENDS Integers, Sequences, FiniteSets, TLC

\* ---------------------------------------------------------------- bounds
MaxProm == 2            \* promises (cache entries) created in one run of Spec
MaxPromThree == 3       \* the same for SpecThree
MaxPromNoCache == 3     \* the same for SpecNoCache
MaxLayerProm == 2       \* promises created in one run of SpecLayer

Keys   == {"k1", "k2"}
Tokens == {"A", "B", "C"}
Errors == {"Error", "AbortError"}
FetcherLists == {<<"one", "many">>, <<"many", "one">>, <<"one", "one", "one">>}
KeyLists == {<<"k1">>, <<"k1", "k2">>, <<"k2", "k2">>}

\* what the backend holds for a key, and the values callers pass to set()
Fetched(k) == <<"fetched", k>>
SetValues == {<<"set", "v">>}

\* the callers and keys that act in the general specification
Callers2 == {"A", "B"}

\* MemoryCache declares maxEntries (memory-cache.ts:24) but its constructor
\* never assigns it: the field stays undefined, which is falsy like 0.
maxEntries == 0

VARIABLES
    aborted,     \* AbortSignal.aborted of every caller token
    listeners,   \* token -> managers whose checkAndAbortIfNeeded listens on it
    mgrs,        \* AbortSignalManager instances: signals set, controller.signal.aborted
    fetches,     \* fetcher invocations: promise returned by fetchOneFn / fetchManyFn
    proms,       \* CacheEntry.promise objects (fetch(...).catch(...) or Promise.resolve)
    store,       \* this.cache: insertion-ordered Map of transformed key -> CacheEntry
    call,        \* what each caller's get(...) returned or threw
    rollingExpiration,  \* constructor option
    fetcherKind,        \* "one": fetchOneFn, "many": fetchManyFn + resultSelector
    removed,     \* history: key was removed by delete() or by expiry
    winFetch,    \* history: fetch that opened the current coalescing window of a key
    winProms,    \* history: promises returned by get(k, token) inside that window
    firedPending, \* history: tokens that fired while their caller's fetch was pending
    hitFetch,    \* history: resolved fetch of a key's window, no delete/expiry/set since
    lastDeleted, \* history: the key of delete(key) when that call was the last event
    lastSet,     \* history: the promise of set(key, value) when that call was the last event
    finallys,    \* NoCache: per entry promise, the finally() reactions not yet run
    fetchers,    \* LayerCache: the chain, "one" (fetchOneFn) or "many" (fetchManyFn) each
    lcache,      \* LayerCache.cache: insertion-ordered Map of transformed key -> promise
    lproms,      \* LayerCache: the promises it created
    chains,      \* LayerCache.getOne: the async functions running the chain for one key
    batches,     \* LayerCache.getManyChain: the keyPromisesMap of each multi-key get
    ttl,         \* ExpiryMap: age of each entry, and the time since insertion / access
    anyOf,       \* abortSignalAny: the controller and listeners of one call
    controller,  \* history: the controller.abort() calls of one AbortSignalManager
    keyMap,      \* constructor option keyTransformer, as the map key -> transformed key
    tracker,     \* one SharedFetchTracker and the promises addCaller returned
    retry        \* one AsyncBackoffRetryPolicy.execute call

vars == <<aborted, listeners, mgrs, fetches, proms, store, call,
          rollingExpiration, fetcherKind, removed, winFetch, winProms,
          firedPending, hitFetch, lastDeleted, lastSet, finallys,
          fetchers, lcache, lproms, chains, batches, ttl, anyOf, controller, keyMap, tracker, retry>>

memVars == <<aborted, listeners, mgrs, fetches, proms, store, call,
             rollingExpiration, fetcherKind, removed, winFetch, winProms,
             firedPending, hitFetch, lastDeleted, lastSet, finallys>>

layerVars == <<fetchers, lcache, lproms, chains, batches>>

auxVars == <<ttl, anyOf, controller, keyMap, tracker, retry>>

\* ------------------------------------------------------------ helpers
NoErr == [name |-> "", message |-> "", cause |-> <<>>]
NoRet == [k \in {} |-> 0]
NoRes == [k \in {} |-> ""]

\* AbortSignal.reason: each token is aborted with a reason of its own
reason(t) == IF aborted[t] THEN <<"reason", t>> ELSE <<>>

\* this.keyTransformer: options.keyTransformer, or by default (k) => k
keyTransformer(k) == keyMap[k]

\* Map.has / Map.get / Map.set / Map.delete on the insertion-ordered store
Index(st, tk) ==
    IF \E i \in 1..Len(st) : st[i].key = tk
    THEN CHOOSE i \in 1..Len(st) : st[i].key = tk
    ELSE 0

\* mutant: the lookup never finds an entry
MapHas_Never(st, tk) == FALSE

MapHas(st, tk) == Index(st, tk) # 0

\* mutant: delete leaves the map as it is
MapDelete_Noop(st, tk) == st

MapDelete(st, tk) ==
    LET i == Index(st, tk) IN
    IF i = 0 THEN st
    ELSE [j \in 1..(Len(st) - 1) |-> IF j < i THEN st[j] ELSE st[j + 1]]

\* mutant: set on an existing key keeps the old entry
MapSet_KeepOld(st, tk, e) ==
    IF Index(st, tk) = 0 THEN Append(st, e) ELSE st

MapSet(st, tk, e) ==
    LET i == Index(st, tk) IN
    IF i = 0 THEN Append(st, e)
    ELSE [st EXCEPT ![i] = e]

\* cache.get(transformedKey): the entry, or a record with promise 0 (undefined)
NoEntry == [key |-> "", promise |-> 0, abortSignalManager |-> 0]

\* mutant: get treats an existing entry as a miss
CacheGet_Miss(st, tk) == NoEntry

CacheGet(st, tk) ==
    IF MapHas(st, tk) THEN st[Index(st, tk)] ELSE NoEntry

\* "Trim oversize entries": while (maxEntries && size > maxEntries) delete first
RECURSIVE Trim(_)
Trim(st) ==
    IF maxEntries # 0 /\ Len(st) > maxEntries
    THEN Trim(Tail(st))
    ELSE st

\* rolling refresh: cache.delete(k); cache.set(k, entry)
Refresh(st, tk, e) == MapSet(MapDelete(st, tk), tk, e)

\* resultSelector(items, key): the item of the batch result that belongs to key
resultSelector(items, k) == items[k]

\* AbortSignalManager.addSignal on the record of one manager
\* mutant: addSignal leaves the token out of the set
addSignal_Skip(m, t) == m

addSignal(m, t) ==
    IF aborted[t] THEN m
    ELSE [m EXCEPT !.signals = @ \cup {t}]

\* mutant: the catch handler rethrows without deleting the entry
RejectionHandler_Keep(st, tk) == st

\* the catch handler of the entry promise: this.cache.delete(transformedKey)
RejectionHandler(st, tk) == MapDelete(st, tk)

\* mutant: get does not look at the caller's token before it starts
EntryCheck_Never(t) == FALSE

\* abortSignal.aborted, as read at the top of getOne / getMany
EntryCheck(t) == aborted[t]

AbortErrorOf(t) ==
    [name |-> "AbortError", message |-> "Operation was aborted", cause |-> reason(t)]

Idle == [status |-> "idle", keys |-> <<>>, ret |-> NoRet, err |-> NoErr]

\* no ExpiryMap clock running, abortSignalAny not called
NoClock == [age |-> [k \in Keys |-> 0], inserted |-> [k \in Keys |-> 0],
            accessed |-> [k \in Keys |-> 0]]

NoAnyOf == [made |-> FALSE, signals |-> <<>>, listeners |-> {}, aborted |-> FALSE,
            aborts |-> 0]

\* new SharedFetchTracker(): individualPromises (signal -> promise, 0: no entry),
\* the shared outcome, the promises handed out, the abortHandlers still registered;
\* cleaned: history, cleanup() was called
Undefined == <<"undefined">>
NoTracker == [individualPromises |-> [t \in Tokens |-> 0],
              isResolved |-> FALSE, isRejected |-> FALSE,
              sharedResult |-> Undefined, sharedError |-> Undefined,
              promises |-> <<>>, handlers |-> {}, cleaned |-> FALSE]

\* no execute call yet. pc: where the async function stands; retries: the loop
\* counter; result: what executor.invoke returned last; backoff: the const of
\* line 104; out: what execute returned or threw; history: calls (of fn),
\* gaveUp (onGiveUp emissions), stateArgs / stateRets (state passed to and
\* held after each call of the backoff function)
NoRetry == [pc |-> "idle", maxAttempts |-> 0, retries |-> 0, signalAborted |-> FALSE,
            result |-> <<>>, backoff |-> [state |-> Undefined, duration |-> 0],
            out |-> <<>>, calls |-> 0, gaveUp |-> 0, stateArgs |-> <<>>, stateRets |-> <<>>]

\* controller.abort() not called yet; sawSignals: this.signals at the check that called it
NoAbortCall == [aborts |-> 0, sawSignals |-> {}]

\* ------------------------------------------------------------ initial state
Init ==
    /\ aborted = [t \in Tokens |-> FALSE]
    /\ listeners = [t \in Tokens |-> {}]
    /\ mgrs = <<>>
    /\ fetches = <<>>
    /\ proms = <<>>
    /\ store = <<>>
    /\ call = [t \in Tokens |-> Idle]
    /\ rollingExpiration \in BOOLEAN
    /\ fetcherKind \in {"one", "many"}
    /\ removed = [k \in Keys |-> FALSE]
    /\ winFetch = [k \in Keys |-> 0]
    /\ winProms = [k \in Keys |-> {}]
    /\ firedPending = {}
    /\ hitFetch = [k \in Keys |-> 0]
    /\ lastDeleted = ""
    /\ lastSet = 0
    /\ finallys = <<>>
    /\ fetchers = <<>>
    /\ lcache = <<>>
    /\ lproms = <<>>
    /\ chains = <<>>
    /\ batches = <<>>
    /\ ttl = NoClock
    /\ anyOf = NoAnyOf
    /\ controller = NoAbortCall
    /\ tracker = NoTracker
    /\ retry = NoRetry
    /\ keyMap = [k \in Keys |-> k]

\* ------------------------------------------------------------ get(key, token)
NewManager == [signals |-> {}, aborted |-> FALSE]

\* addEventListener('abort', checkAndAbortIfNeeded, {once: true}) inside addSignal
addListener(ls, t, m) ==
    IF aborted[t] THEN ls
    ELSE [ls EXCEPT ![t] = @ \cup {m}]

\* sigs: the tokens the manager holds when the fetcher is called with its signal
NewFetch(ks, m, sigs) ==
    [keys |-> ks, mgr |-> m, state |-> "pending", res |-> NoRes, err |-> "",
     seeded |-> sigs]

NewPromise(k, f) ==
    [key |-> k, fetch |-> f, state |-> "pending", val |-> <<>>, err |-> ""]

\* history of the coalescing window of k after get(k, token) returned promise p
WindowAfterGet(k, p, fs, ps) ==
    IF winFetch[k] # 0
    THEN /\ winProms' = [winProms EXCEPT ![k] = @ \cup {p}]
         /\ UNCHANGED winFetch
    ELSE IF ps[p].fetch # 0 /\ fs[ps[p].fetch].state = "pending"
    THEN /\ winFetch' = [winFetch EXCEPT ![k] = ps[p].fetch]
         /\ winProms' = [winProms EXCEPT ![k] = {p}]
    ELSE UNCHANGED <<winFetch, winProms>>

WindowReset(ks) ==
    /\ winFetch' = [k \in Keys |-> IF k \in ks THEN 0 ELSE winFetch[k]]
    /\ winProms' = [k \in Keys |-> IF k \in ks THEN {} ELSE winProms[k]]

Threw(c, ks) ==
    /\ call' = [call EXCEPT ![c] =
                  [status |-> "threw", keys |-> ks, ret |-> NoRet, err |-> AbortErrorOf(c)]]
    /\ UNCHANGED <<aborted, listeners, mgrs, fetches, proms, store,
                   rollingExpiration, fetcherKind, removed, winFetch, winProms,
                   firedPending, hitFetch>>

GetOne(c, k) ==
    /\ call[c].status = "idle"
    /\ lastDeleted' = ""
    /\ lastSet' = 0
    /\ LET transformedKey == keyTransformer(k)
           cacheEntry == CacheGet(store, transformedKey)
       IN
       IF EntryCheck(c)
       THEN Threw(c, <<k>>)
       ELSE IF cacheEntry.promise = 0
       THEN LET m == Len(mgrs) + 1
                   f == Len(fetches) + 1
                   p == Len(proms) + 1
                   e == [key |-> transformedKey, promise |-> p, abortSignalManager |-> m]
                   st1 == Trim(MapSet(store, transformedKey, e))
            IN
               /\ mgrs' = Append(mgrs, addSignal(NewManager, c))
               /\ listeners' = addListener(listeners, c, m)
               /\ fetches' = Append(fetches, NewFetch({k}, m, NewManager.signals))
               /\ proms' = Append(proms, NewPromise(k, f))
               /\ store' = IF rollingExpiration THEN Refresh(st1, transformedKey, e) ELSE st1
               /\ call' = [call EXCEPT ![c] =
                             [status |-> "one", keys |-> <<k>>, ret |-> (k :> p), err |-> NoErr]]
               /\ WindowAfterGet(k, p, fetches', proms')
               /\ UNCHANGED <<aborted, rollingExpiration, fetcherKind, removed, firedPending, hitFetch>>
       ELSE /\ mgrs' = [mgrs EXCEPT ![cacheEntry.abortSignalManager] = addSignal(@, c)]
            /\ listeners' = addListener(listeners, c, cacheEntry.abortSignalManager)
            /\ store' = IF rollingExpiration
                        THEN Refresh(store, transformedKey, cacheEntry)
                        ELSE store
            /\ call' = [call EXCEPT ![c] =
                          [status |-> "one", keys |-> <<k>>,
                           ret |-> (k :> cacheEntry.promise), err |-> NoErr]]
            /\ WindowAfterGet(k, cacheEntry.promise, fetches, proms)
            /\ UNCHANGED <<aborted, fetches, proms, rollingExpiration, fetcherKind, removed,
                           firedPending, hitFetch>>

\* ------------------------------------------------------------ get(keys[], token)
\* keyPromisesMap is a Map keyed by the caller's key: repeated keys collapse
RECURSIVE Dedup(_)
Dedup(s) ==
    IF s = <<>> THEN <<>>
    ELSE LET r == Dedup(SubSeq(s, 1, Len(s) - 1))
             last == s[Len(s)]
         IN IF \E i \in 1..Len(r) : r[i] = last THEN r ELSE Append(r, last)

Range(s) == {s[i] : i \in 1..Len(s)}

PosIn(s, x) == CHOOSE i \in 1..Len(s) : s[i] = x

RECURSIVE InstallAll(_, _, _)
InstallAll(st, es, i) ==
    IF i > Len(es) THEN st
    ELSE InstallAll(MapSet(st, es[i].key, es[i]), es, i + 1)

RECURSIVE RefreshAll(_, _, _)
RefreshAll(st, es, i) ==
    IF i > Len(es) THEN st
    ELSE RefreshAll(Refresh(st, es[i].key, es[i]), es, i + 1)

GetMany(c, ks) ==
    /\ call[c].status = "idle"
    /\ lastDeleted' = ""
    /\ lastSet' = 0
    /\ IF EntryCheck(c)
       THEN Threw(c, ks)
       ELSE
       LET dk == Dedup(ks)
           keysToFetch == SelectSeq(dk, LAMBDA k : ~MapHas(store, keyTransformer(k)))
           n == Len(keysToFetch)
           m0 == Len(mgrs)
           f0 == Len(fetches)
           p0 == Len(proms)
           nm == IF n = 0 THEN 0 ELSE IF fetcherKind = "one" THEN n ELSE 1
           mgrOf(i) == IF fetcherKind = "one" THEN m0 + i ELSE m0 + 1
           fetchOf(i) == IF fetcherKind = "one" THEN f0 + i ELSE f0 + 1
           newEntry(i) == [key |-> keyTransformer(keysToFetch[i]),
                           promise |-> p0 + i,
                           abortSignalManager |-> mgrOf(i)]
           newEntries == [i \in 1..n |-> newEntry(i)]
           \* keyPromisesMap after the fetch branch
           entryOf(k) == IF MapHas(store, keyTransformer(k))
                         THEN CacheGet(store, keyTransformer(k))
                         ELSE newEntry(PosIn(keysToFetch, k))
           st1 == Trim(InstallAll(store, newEntries, 1))
           all == [i \in 1..Len(dk) |-> entryOf(dk[i])]
       IN
       /\ mgrs' = mgrs \o [i \in 1..nm |-> addSignal(NewManager, c)]
       /\ listeners' = [listeners EXCEPT ![c] = @ \cup {m0 + i : i \in 1..nm}]
       /\ fetches' = fetches \o
             (IF fetcherKind = "one"
              THEN [i \in 1..n |-> NewFetch({keysToFetch[i]}, m0 + i, addSignal(NewManager, c).signals)]
              ELSE [i \in 1..nm |-> NewFetch(Range(keysToFetch), m0 + 1, addSignal(NewManager, c).signals)])
       /\ proms' = proms \o [i \in 1..n |-> NewPromise(keysToFetch[i], fetchOf(i))]
       /\ store' = IF rollingExpiration THEN RefreshAll(st1, all, 1) ELSE st1
       /\ call' = [call EXCEPT ![c] =
                     [status |-> "many", keys |-> ks,
                      ret |-> [k \in Range(dk) |-> entryOf(k).promise], err |-> NoErr]]
       /\ UNCHANGED <<aborted, rollingExpiration, fetcherKind, removed, winFetch, winProms,
                      firedPending, hitFetch>>

\* ------------------------------------------------------------ set / delete / expiry
Set(k, v) ==
    /\ LET transformedKey == keyTransformer(k)
           m == Len(mgrs) + 1
           p == Len(proms) + 1
       IN
       /\ mgrs' = Append(mgrs, NewManager)
       /\ proms' = Append(proms, [key |-> k, fetch |-> 0, state |-> "resolved",
                                  val |-> v, err |-> ""])
       /\ store' = MapSet(store, transformedKey,
                          [key |-> transformedKey, promise |-> p, abortSignalManager |-> m])
    /\ WindowReset({k})
    /\ hitFetch' = [hitFetch EXCEPT ![k] = 0]
    /\ lastDeleted' = ""
    /\ lastSet' = Len(proms) + 1
    /\ UNCHANGED <<aborted, listeners, fetches, call, rollingExpiration, fetcherKind, removed, firedPending>>

Delete(k) ==
    /\ MapHas(store, keyTransformer(k))
    /\ store' = MapDelete(store, keyTransformer(k))
    /\ lastDeleted' = k
    /\ lastSet' = 0
    /\ removed' = [removed EXCEPT ![k] = TRUE]
    /\ WindowReset({k})
    /\ hitFetch' = [hitFetch EXCEPT ![k] = 0]
    /\ UNCHANGED <<aborted, listeners, mgrs, fetches, proms, call,
                   rollingExpiration, fetcherKind, firedPending>>

\* ExpiryMap (cacheExpirationMs): the entry's age reaches the limit and the map drops it
Expire(k) ==
    /\ MapHas(store, keyTransformer(k))
    /\ lastDeleted' = ""
    /\ lastSet' = 0
    /\ store' = MapDelete(store, keyTransformer(k))
    /\ removed' = [removed EXCEPT ![k] = TRUE]
    /\ WindowReset({k})
    /\ hitFetch' = [hitFetch EXCEPT ![k] = 0]
    /\ UNCHANGED <<aborted, listeners, mgrs, fetches, proms, call,
                   rollingExpiration, fetcherKind, firedPending>>

\* ------------------------------------------------------------ a caller token fires
\* checkAndAbortIfNeeded of manager m, evaluated with the token states ab
allAborted(m, ab) ==
    \/ m.signals = {}
    \/ \A s \in m.signals : ab[s]

\* mutant: the check does not look at this.signal.aborted
checkAndAbortIfNeeded_Again(m, ab) == allAborted(m, ab)

checkAndAbortIfNeeded(m, ab) == allAborted(m, ab) /\ ~m.aborted

\* cleanup(): listeners removed from every token of the set, set cleared
cleanup(m) == [signals |-> {}, aborted |-> TRUE]

\* mutant: a firing token also drops the entries of the keys its caller holds
Abort_Purge(t) ==
    /\ ~aborted[t]
    /\ lastDeleted' = ""
    /\ lastSet' = 0
    /\ aborted' = [aborted EXCEPT ![t] = TRUE]
    /\ LET fired == {m \in listeners[t] : checkAndAbortIfNeeded(mgrs[m], aborted')}
       IN
       /\ mgrs' = [m \in 1..Len(mgrs) |-> IF m \in fired THEN cleanup(mgrs[m]) ELSE mgrs[m]]
       /\ listeners' = [s \in Tokens |-> IF s = t THEN {} ELSE listeners[s] \ fired]
    /\ firedPending' =
          IF \E k \in DOMAIN call[t].ret :
                /\ proms[call[t].ret[k]].fetch # 0
                /\ fetches[proms[call[t].ret[k]].fetch].state = "pending"
          THEN firedPending \cup {t}
          ELSE firedPending
    /\ store' = SelectSeq(store, LAMBDA e : e.key \notin {keyTransformer(k) : k \in DOMAIN call[t].ret})
    /\ UNCHANGED <<fetches, proms, call, rollingExpiration, fetcherKind,
                   removed, winFetch, winProms, hitFetch>>

Abort(t) ==
    /\ ~aborted[t]
    /\ lastDeleted' = ""
    /\ lastSet' = 0
    /\ aborted' = [aborted EXCEPT ![t] = TRUE]
    /\ LET fired == {m \in listeners[t] : checkAndAbortIfNeeded(mgrs[m], aborted')}
       IN
       /\ mgrs' = [m \in 1..Len(mgrs) |-> IF m \in fired THEN cleanup(mgrs[m]) ELSE mgrs[m]]
       /\ listeners' = [s \in Tokens |-> IF s = t THEN {} ELSE listeners[s] \ fired]
    /\ firedPending' =
          IF \E k \in DOMAIN call[t].ret :
                /\ proms[call[t].ret[k]].fetch # 0
                /\ fetches[proms[call[t].ret[k]].fetch].state = "pending"
          THEN firedPending \cup {t}
          ELSE firedPending
    /\ UNCHANGED <<fetches, proms, store, call, rollingExpiration, fetcherKind,
                   removed, winFetch, winProms, hitFetch>>

\* ------------------------------------------------------------ the fetcher settles
FetchResolve(f, items) ==
    /\ fetches[f].state = "pending"
    /\ lastDeleted' = ""
    /\ lastSet' = 0
    /\ fetches' = [fetches EXCEPT ![f] = [@ EXCEPT !.state = "resolved", !.res = items]]
    /\ WindowReset({k \in Keys : winFetch[k] = f})
    /\ hitFetch' = [k \in Keys |-> IF winFetch[k] = f THEN f ELSE hitFetch[k]]
    /\ UNCHANGED <<aborted, listeners, mgrs, proms, store, call,
                   rollingExpiration, fetcherKind, removed, firedPending>>

\* a fetcher reports a cancellation only after the signal it was given has fired
FetchReject(f, e) ==
    /\ fetches[f].state = "pending"
    /\ e = "AbortError" => mgrs[fetches[f].mgr].aborted
    /\ lastDeleted' = ""
    /\ lastSet' = 0
    /\ fetches' = [fetches EXCEPT ![f] = [@ EXCEPT !.state = "rejected", !.err = e]]
    /\ WindowReset({k \in Keys : winFetch[k] = f})
    /\ UNCHANGED hitFetch
    /\ UNCHANGED <<aborted, listeners, mgrs, proms, store, call,
                   rollingExpiration, fetcherKind, removed, firedPending>>

\* the value the entry promise takes from a resolved fetch
FetchedValue(f, k) ==
    IF fetcherKind = "one" THEN f.res[k] ELSE resultSelector(f.res, k)

\* mutant: the entry promise fails with a cancellation as soon as a caller
\* of the key has cancelled
Outcome_CancelWins(f, k) ==
    IF \E c \in Tokens : aborted[c] /\ k \in DOMAIN call[c].ret
    THEN [state |-> "rejected", val |-> <<>>, err |-> "AbortError"]
    ELSE IF f.state = "resolved"
    THEN [state |-> "resolved", val |-> FetchedValue(f, k), err |-> ""]
    ELSE [state |-> "rejected", val |-> <<>>, err |-> f.err]

\* what the entry promise of key k settles with once fetch f has settled:
\* the selected value, or the fetch's own error rethrown by the catch handler
Outcome(f, k) ==
    IF f.state = "resolved"
    THEN [state |-> "resolved", val |-> FetchedValue(f, k), err |-> ""]
    ELSE [state |-> "rejected", val |-> <<>>, err |-> f.err]

\* reaction of the entry promise: .then(selector) / .catch(delete + rethrow)
Settle(p) ==
    /\ proms[p].state = "pending"
    /\ proms[p].fetch # 0
    /\ lastDeleted' = ""
    /\ lastSet' = 0
    /\ LET f == fetches[proms[p].fetch]
           o == Outcome(f, proms[p].key)
       IN
       /\ f.state # "pending"
       /\ proms' = [proms EXCEPT ![p] =
                      [@ EXCEPT !.state = o.state, !.val = o.val, !.err = o.err]]
       /\ store' = IF o.state = "rejected"
                   THEN RejectionHandler(store, keyTransformer(proms[p].key))
                   ELSE store
    /\ UNCHANGED <<aborted, listeners, mgrs, fetches, call, rollingExpiration,
                   fetcherKind, removed, winFetch, winProms, firedPending, hitFetch>>

\* The general specification: two callers, two keys, every operation.
Next ==
    \/ \E c \in Callers2, k \in Keys : GetOne(c, k) /\ Len(proms') <= MaxProm /\ UNCHANGED finallys /\ UNCHANGED layerVars /\ UNCHANGED auxVars
    \/ \E c \in Callers2, ks \in KeyLists : GetMany(c, ks) /\ Len(proms') <= MaxProm /\ UNCHANGED finallys /\ UNCHANGED layerVars /\ UNCHANGED auxVars
    \/ \E k \in Keys, v \in SetValues : Set(k, v) /\ Len(proms') <= MaxProm /\ UNCHANGED finallys /\ UNCHANGED layerVars /\ UNCHANGED auxVars
    \/ \E k \in Keys : Delete(k) /\ UNCHANGED finallys /\ UNCHANGED layerVars /\ UNCHANGED auxVars
    \/ \E k \in Keys : Expire(k) /\ UNCHANGED finallys /\ UNCHANGED layerVars /\ UNCHANGED auxVars
    \/ \E t \in Callers2 : Abort(t) /\ UNCHANGED finallys /\ UNCHANGED layerVars /\ UNCHANGED auxVars
    \/ \E f \in 1..Len(fetches) : FetchResolve(f, [k \in fetches[f].keys |-> Fetched(k)]) /\ UNCHANGED finallys /\ UNCHANGED layerVars /\ UNCHANGED auxVars
    \/ \E f \in 1..Len(fetches), e \in Errors : FetchReject(f, e) /\ UNCHANGED finallys /\ UNCHANGED layerVars /\ UNCHANGED auxVars
    \/ \E p \in 1..Len(proms) : Settle(p) /\ UNCHANGED finallys /\ UNCHANGED layerVars /\ UNCHANGED auxVars

Spec == Init /\ [][Next]_vars

\* Three callers of the single-key API on one key of a cache built with fetchOneFn.
InitThree ==
    /\ Init
    /\ rollingExpiration = FALSE
    /\ fetcherKind = "one"

NextThree ==
    \/ \E c \in Tokens : GetOne(c, "k1") /\ Len(proms') <= MaxPromThree /\ UNCHANGED finallys /\ UNCHANGED layerVars /\ UNCHANGED auxVars
    \/ \E v \in SetValues : Set("k1", v) /\ Len(proms') <= MaxPromThree /\ UNCHANGED finallys /\ UNCHANGED layerVars /\ UNCHANGED auxVars
    \/ Delete("k1") /\ UNCHANGED finallys /\ UNCHANGED layerVars /\ UNCHANGED auxVars
    \/ \E t \in Tokens : Abort(t) /\ UNCHANGED finallys /\ UNCHANGED layerVars /\ UNCHANGED auxVars
    \/ \E f \in 1..Len(fetches) : FetchResolve(f, [k \in fetches[f].keys |-> Fetched(k)]) /\ UNCHANGED finallys /\ UNCHANGED layerVars /\ UNCHANGED auxVars
    \/ \E f \in 1..Len(fetches), e \in Errors : FetchReject(f, e) /\ UNCHANGED finallys /\ UNCHANGED layerVars /\ UNCHANGED auxVars
    \/ \E p \in 1..Len(proms) : Settle(p) /\ UNCHANGED finallys /\ UNCHANGED layerVars /\ UNCHANGED auxVars

SpecThree == InitThree /\ [][NextThree]_vars

\* ------------------------------------------------------------ NoCache
\* NoCache extends MemoryCache: its constructor passes neither cacheExpirationMs
\* nor rollingExpiration, and every get adds promise.finally(() => this.delete(key))
\* to each promise it returns.
\* mutant: get registers no finally reaction
Registered_None(fs, ps, ret) == [p \in 1..Len(ps) |-> 0]

Registered(fs, ps, ret) ==
    [p \in 1..Len(ps) |->
        (IF p <= Len(fs) THEN fs[p] ELSE 0)
        + Cardinality({k \in DOMAIN ret : ret[k] = p})]

NoCacheGetOne(c, k) ==
    /\ GetOne(c, k)
    /\ finallys' = Registered(finallys, proms', call'[c].ret)

NoCacheGetMany(c, ks) ==
    /\ GetMany(c, ks)
    /\ finallys' = Registered(finallys, proms', call'[c].ret)

\* the finally callback of a settled promise: this.delete(key)
Finally(p) ==
    /\ p <= Len(finallys)
    /\ finallys[p] > 0
    /\ proms[p].state # "pending"
    /\ finallys' = [finallys EXCEPT ![p] = @ - 1]
    /\ store' = MapDelete(store, keyTransformer(proms[p].key))
    /\ lastDeleted' = ""
    /\ lastSet' = 0
    /\ UNCHANGED <<aborted, listeners, mgrs, fetches, proms, call, rollingExpiration,
                   fetcherKind, removed, winFetch, winProms, firedPending, hitFetch>>

InitNoCache ==
    /\ Init
    /\ rollingExpiration = FALSE

NextNoCache ==
    \/ \E c \in Tokens : NoCacheGetOne(c, "k1") /\ Len(proms') <= MaxPromNoCache /\ UNCHANGED layerVars /\ UNCHANGED auxVars
    \/ \E c \in Tokens : NoCacheGetMany(c, <<"k1", "k2">>) /\ Len(proms') <= MaxPromNoCache /\ UNCHANGED layerVars /\ UNCHANGED auxVars
    \/ Abort("A") /\ UNCHANGED finallys /\ UNCHANGED layerVars /\ UNCHANGED auxVars
    \/ \E f \in 1..Len(fetches) :
          FetchResolve(f, [k \in fetches[f].keys |-> Fetched(k)]) /\ UNCHANGED finallys /\ UNCHANGED layerVars /\ UNCHANGED auxVars
    \/ \E f \in 1..Len(fetches), e \in Errors : FetchReject(f, e) /\ UNCHANGED finallys /\ UNCHANGED layerVars /\ UNCHANGED auxVars
    \/ \E p \in 1..Len(proms) : Settle(p) /\ UNCHANGED finallys /\ UNCHANGED layerVars /\ UNCHANGED auxVars
    \/ \E p \in 1..Len(proms) : Finally(p) /\ UNCHANGED layerVars /\ UNCHANGED auxVars

SpecNoCache == InitNoCache /\ [][NextNoCache]_vars

\* ------------------------------------------------------------ LayerCache
\* src/src/cache/layer-cache.ts: a store of promises in front of an ordered
\* chain of fetchers. No token is looked at; fetchers get the caller's signal.

\* LayerCache declares maxEntries (layer-cache.ts:68) and never assigns it
layerMaxEntries == 0

Null == <<"null">>
NoFetcherError == "No fetcher returned a valid item."
LayerErrors == {"FetcherError"}

\* what fetcher i holds for key k when it has the key
FetcherItem(i, k) == <<"item", i, k>>

\* mutant: every returned item counts as a value
Valid_Always(item) == TRUE

\* item !== null
Valid(item) == item # Null

\* prune(): while (maxEntries && size > maxEntries) delete the first key
RECURSIVE prune(_)
prune(st) ==
    IF layerMaxEntries # 0 /\ Len(st) > layerMaxEntries
    THEN prune(Tail(st))
    ELSE st

has(k) == MapHas(lcache, keyTransformer(k))

PendingPromise(k) == [key |-> k, state |-> "pending", val |-> <<>>, err |-> ""]

resolve(ps, p, item) == [ps EXCEPT ![p] = [@ EXCEPT !.state = "resolved", !.val = item]]

reject(ps, p, e) == [ps EXCEPT ![p] = [@ EXCEPT !.state = "rejected", !.err = e]]

\* get(key): prune, then getOne
LayerGetOne(k) ==
    LET tk == keyTransformer(k)
        st0 == prune(lcache)
    IN
    IF MapHas(st0, tk)
    THEN /\ lcache' = IF rollingExpiration
                      THEN Refresh(st0, tk, st0[Index(st0, tk)])
                      ELSE st0
         /\ UNCHANGED <<fetchers, lproms, chains, batches>>
    ELSE LET p == Len(lproms) + 1 IN
         /\ lproms' = Append(lproms, PendingPromise(k))
         /\ chains' = Append(chains, [key |-> k, promise |-> p, idx |-> 1,
                                      invoked |-> <<1>>, results |-> <<>>,
                                      state |-> "awaiting"])
         /\ lcache' = MapSet(st0, tk, [key |-> tk, promise |-> p])
         /\ UNCHANGED <<fetchers, batches>>

\* the awaited fetcher of chain r returns item (fetchOneFn's value, or the
\* selector's pick out of fetchManyFn's result); the loop goes on
AwaitReturns(r, item) ==
    /\ chains[r].state = "awaiting"
    /\ LET c == chains[r]
           res == Append(c.results, item)
       IN
       IF Valid(item)
       THEN /\ lproms' = resolve(lproms, c.promise, item)
            /\ chains' = [chains EXCEPT ![r] = [@ EXCEPT !.results = res, !.state = "done"]]
       ELSE IF c.idx < Len(fetchers)
       THEN /\ chains' = [chains EXCEPT ![r] =
                            [@ EXCEPT !.results = res, !.idx = c.idx + 1,
                                      !.invoked = Append(c.invoked, c.idx + 1)]]
            /\ UNCHANGED lproms
       ELSE /\ lproms' = reject(lproms, c.promise, NoFetcherError)
            /\ chains' = [chains EXCEPT ![r] = [@ EXCEPT !.results = res, !.state = "done"]]
    /\ UNCHANGED <<fetchers, lcache, batches>>

\* the awaited fetcher of chain r rejects: the async function throws
AwaitThrows(r, e) ==
    /\ chains[r].state = "awaiting"
    /\ lproms' = reject(lproms, chains[r].promise, e)
    /\ chains' = [chains EXCEPT ![r] =
                    [@ EXCEPT !.results = Append(@, <<"threw", e>>), !.state = "failed"]]
    /\ UNCHANGED <<fetchers, lcache, batches>>

\* getManyChain(keyPromisesMap, fetchers from index i on, args) on batch record b
getManyChain(b, pend, i) ==
    IF DOMAIN pend = {}
    THEN [b EXCEPT !.pending = pend, !.outstanding = {}, !.state = "done"]
    ELSE IF i > Len(fetchers)
    THEN [b EXCEPT !.pending = pend, !.outstanding = {}, !.state = "threw"]
    ELSE [b EXCEPT !.pending = pend, !.idx = i, !.outstanding = DOMAIN pend,
                   !.state = "awaiting",
                   !.invoked = Append(@, [fetcher |-> i, keys |-> DOMAIN pend])]

NewBatch == [pending |-> NoRet, idx |-> 0, outstanding |-> {}, failed |-> FALSE,
             state |-> "new", invoked |-> <<>>]

\* get(keys[]): prune, then getMany
LayerGetMany(ks) ==
    LET st0 == prune(lcache)
        dk == Dedup(ks)
        keysToFetch == SelectSeq(dk, LAMBDA k : ~MapHas(st0, keyTransformer(k)))
        n == Len(keysToFetch)
        p0 == Len(lproms)
        additionalPromises == [k \in Range(keysToFetch) |-> p0 + PosIn(keysToFetch, k)]
        newEntries == [i \in 1..n |-> [key |-> keyTransformer(keysToFetch[i]), promise |-> p0 + i]]
    IN
    /\ lproms' = lproms \o [i \in 1..n |-> PendingPromise(keysToFetch[i])]
    /\ lcache' = InstallAll(st0, newEntries, 1)
    /\ batches' = IF n = 0 THEN batches
                  ELSE Append(batches, getManyChain(NewBatch, additionalPromises, 1))
    /\ UNCHANGED <<fetchers, chains>>

\* what the Promise.all(...).then / fetchManyFn(...).then callback does with
\* the keys that are left
Continue(b, pend) ==
    IF DOMAIN pend = {}
    THEN [b EXCEPT !.pending = pend, !.outstanding = {}, !.state = "done"]
    ELSE getManyChain(b, pend, b.idx + 1)

\* mutant: a resolved key stays in keyPromisesMap
Without_Keep(pend, ks) == pend

Without(pend, ks) == [k \in DOMAIN pend \ ks |-> pend[k]]

\* head fetcher is fetchOneFn: the call for key k returns item
BatchOneReturns(b, k, item) ==
    /\ batches[b].state = "awaiting"
    /\ fetchers[batches[b].idx] = "one"
    /\ k \in batches[b].outstanding
    /\ LET B == batches[b]
           pend == IF Valid(item) THEN Without(B.pending, {k}) ELSE B.pending
           out == B.outstanding \ {k}
       IN
       /\ lproms' = IF Valid(item) THEN resolve(lproms, B.pending[k], item) ELSE lproms
       /\ batches' = [batches EXCEPT ![b] =
             IF out # {} THEN [B EXCEPT !.pending = pend, !.outstanding = out]
             ELSE IF B.failed THEN [B EXCEPT !.pending = pend, !.outstanding = out, !.state = "dead"]
             ELSE Continue(B, pend)]
    /\ UNCHANGED <<fetchers, lcache, chains>>

\* head fetcher is fetchOneFn: the call for key k rejects, so Promise.all rejects
BatchOneThrows(b, k, e) ==
    /\ batches[b].state = "awaiting"
    /\ fetchers[batches[b].idx] = "one"
    /\ k \in batches[b].outstanding
    /\ batches' = [batches EXCEPT ![b] =
          [@ EXCEPT !.outstanding = @ \ {k}, !.failed = TRUE,
                    !.state = IF batches[b].outstanding = {k} THEN "dead" ELSE "awaiting"]]
    /\ UNCHANGED <<fetchers, lcache, lproms, chains>>

RECURSIVE ResolveAll(_, _, _, _)
ResolveAll(ps, pend, results, ks) ==
    IF ks = {} THEN ps
    ELSE LET k == CHOOSE x \in ks : TRUE IN
         ResolveAll(IF Valid(resultSelector(results, k))
                    THEN resolve(ps, pend[k], resultSelector(results, k))
                    ELSE ps,
                    pend, results, ks \ {k})

\* head fetcher is fetchManyFn: it returns results, the selector picks per key
BatchManyReturns(b, results) ==
    /\ batches[b].state = "awaiting"
    /\ fetchers[batches[b].idx] = "many"
    /\ LET B == batches[b]
           got == {k \in DOMAIN B.pending : Valid(resultSelector(results, k))}
       IN
       /\ lproms' = ResolveAll(lproms, B.pending, results, DOMAIN B.pending)
       /\ batches' = [batches EXCEPT ![b] = Continue(B, Without(B.pending, got))]
    /\ UNCHANGED <<fetchers, lcache, chains>>

\* head fetcher is fetchManyFn: it rejects, and only .then was attached
BatchManyThrows(b, e) ==
    /\ batches[b].state = "awaiting"
    /\ fetchers[batches[b].idx] = "many"
    /\ batches' = [batches EXCEPT ![b] = [@ EXCEPT !.outstanding = {}, !.failed = TRUE,
                                                   !.state = "dead"]]
    /\ UNCHANGED <<fetchers, lcache, lproms, chains>>

LayerSet(k, v) ==
    /\ lproms' = Append(lproms, [key |-> k, state |-> "resolved", val |-> v, err |-> ""])
    /\ lcache' = prune(MapSet(lcache, keyTransformer(k),
                              [key |-> keyTransformer(k), promise |-> Len(lproms) + 1]))
    /\ UNCHANGED <<fetchers, chains, batches>>

LayerDelete(k) ==
    /\ has(k)
    /\ lcache' = prune(MapDelete(lcache, keyTransformer(k)))
    /\ UNCHANGED <<fetchers, lproms, chains, batches>>

InitLayer ==
    /\ aborted = [t \in Tokens |-> FALSE]
    /\ listeners = [t \in Tokens |-> {}]
    /\ mgrs = <<>>
    /\ fetches = <<>>
    /\ proms = <<>>
    /\ store = <<>>
    /\ call = [t \in Tokens |-> Idle]
    /\ rollingExpiration \in BOOLEAN
    /\ fetcherKind = "one"
    /\ removed = [k \in Keys |-> FALSE]
    /\ winFetch = [k \in Keys |-> 0]
    /\ winProms = [k \in Keys |-> {}]
    /\ firedPending = {}
    /\ hitFetch = [k \in Keys |-> 0]
    /\ lastDeleted = ""
    /\ lastSet = 0
    /\ finallys = <<>>
    /\ fetchers \in FetcherLists
    /\ lcache = <<>>
    /\ lproms = <<>>
    /\ chains = <<>>
    /\ batches = <<>>
    /\ ttl = NoClock
    /\ anyOf = NoAnyOf
    /\ controller = NoAbortCall
    /\ tracker = NoTracker
    /\ retry = NoRetry
    /\ keyMap = [k \in Keys |-> k]

NextLayer ==
    \/ \E k \in Keys : LayerGetOne(k) /\ Len(lproms') <= MaxLayerProm /\ UNCHANGED memVars /\ UNCHANGED auxVars
    \/ \E ks \in KeyLists : LayerGetMany(ks) /\ Len(lproms') <= MaxLayerProm /\ UNCHANGED memVars /\ UNCHANGED auxVars
    \/ \E r \in 1..Len(chains) :
          \E item \in {Null, FetcherItem(chains[r].idx, chains[r].key)} :
             AwaitReturns(r, item) /\ UNCHANGED memVars /\ UNCHANGED auxVars
    \/ \E r \in 1..Len(chains), e \in LayerErrors : AwaitThrows(r, e) /\ UNCHANGED memVars /\ UNCHANGED auxVars
    \/ \E b \in 1..Len(batches), k \in Keys :
          \E item \in {Null, FetcherItem(batches[b].idx, k)} :
             BatchOneReturns(b, k, item) /\ UNCHANGED memVars /\ UNCHANGED auxVars
    \/ \E b \in 1..Len(batches), k \in Keys, e \in LayerErrors :
          BatchOneThrows(b, k, e) /\ UNCHANGED memVars /\ UNCHANGED auxVars
    \/ \E b \in 1..Len(batches) :
          \E found \in [Keys -> BOOLEAN] :
             BatchManyReturns(b, [k \in Keys |->
                 IF found[k] THEN FetcherItem(batches[b].idx, k) ELSE Null])
             /\ UNCHANGED memVars /\ UNCHANGED auxVars
    \/ \E b \in 1..Len(batches), e \in LayerErrors : BatchManyThrows(b, e) /\ UNCHANGED memVars /\ UNCHANGED auxVars
    \/ \E k \in Keys, v \in SetValues : LayerSet(k, v) /\ Len(lproms') <= MaxLayerProm /\ UNCHANGED memVars /\ UNCHANGED auxVars
    \/ \E k \in Keys : LayerDelete(k) /\ UNCHANGED memVars /\ UNCHANGED auxVars

SpecLayer == InitLayer /\ [][NextLayer]_vars

TypeOK ==
    /\ \A t \in Tokens : listeners[t] \subseteq 1..Len(mgrs)
    /\ \A i \in 1..Len(store) : store[i].promise \in 1..Len(proms)

\* ============================================================ properties
Holding(c) == call[c].status \in {"one", "many"}

\* the callers that received promise p from a get
Holders(p) == {c \in Tokens : Holding(c) /\ \E k \in DOMAIN call[c].ret : call[c].ret[k] = p}

Cancelled(p) == proms[p].state = "rejected" /\ proms[p].err = "AbortError"

PendingFetches(k) ==
    {f \in 1..Len(fetches) : k \in fetches[f].keys /\ fetches[f].state = "pending"}

\* a step in which caller c's single-key get(k) returns
GetOneReturns(c, k) ==
    /\ call[c].status = "idle"
    /\ call'[c].status = "one"
    /\ call'[c].keys = <<k>>

\* C1 (as claimed): the single-key gets of k issued with live tokens while one
\* fetch of k is unsettled, with no delete, expiry (or set) of k in between,
\* all return one promise, and the fetcher was invoked once for k in that time.
C1_Coalescing ==
    \A k \in Keys :
        winFetch[k] # 0 =>
            /\ Cardinality(winProms[k]) = 1
            /\ Cardinality({f \in winFetch[k]..Len(fetches) : k \in fetches[f].keys}) = 1

\* C2 (as claimed): while the fetch is pending, the signal given to the fetcher
\* is aborted exactly when every caller attached through get(k) has fired.
C2_AllOfCancel ==
    \A p \in 1..Len(proms) :
        LET f == proms[p].fetch IN
        (f # 0 /\ fetches[f].state = "pending" /\ Holders(p) # {}) =>
            (mgrs[fetches[f].mgr].aborted <=> \A c \in Holders(p) : aborted[c])

\* C3 (as claimed): at every instant at most one fetcher invocation for a key
\* is unsettled.
C3_OneInFlight ==
    \A k \in Keys : Cardinality(PendingFetches(k)) <= 1

\* C3 (amended): the same for every key that was never deleted and never expired.
C3_OneInFlightUnlessRemoved ==
    \A k \in Keys : ~removed[k] => Cardinality(PendingFetches(k)) <= 1

C3_Witness ==
    \E f, g \in 1..Len(fetches) :
        /\ f < g
        /\ "k1" \in fetches[f].keys /\ "k1" \in fetches[g].keys
        /\ fetches[f].state = "rejected"
        /\ fetches[g].state = "pending"
        /\ ~removed["k1"]
        /\ \E q \in 1..Len(proms) : proms[q].fetch = g /\ Holders(q) # {}

\* C4: no entry of the store holds a rejected promise; the step that rejects
\* the entry promise of k leaves no entry for k; and a get(k) that finds no
\* entry invokes the fetcher.
C4_NoRejectedEntry ==
    \A i \in 1..Len(store) : proms[store[i].promise].state # "rejected"

C4_PurgeStep ==
    \A p \in 1..Len(proms) :
        (proms[p].state = "pending" /\ proms'[p].state = "rejected")
            => ~MapHas(store', keyTransformer(proms[p].key))

C4_RefetchStep ==
    \A c \in Tokens, k \in Keys :
        (GetOneReturns(c, k) /\ ~MapHas(store, keyTransformer(k))) =>
            /\ Len(fetches') = Len(fetches) + 1
            /\ fetches'[Len(fetches')].keys = {k}
            /\ fetches'[Len(fetches')].state = "pending"

\* C4: a rejected fetch leaves no entry under its key (no rejected promise is
\* ever stored), and the next get of that key invokes the fetcher afresh.
C4_RejectionPurges ==
    /\ []C4_NoRejectedEntry
    /\ [][C4_PurgeStep /\ C4_RefetchStep]_vars

C4_Witness ==
    \E p, q \in 1..Len(proms) :
        /\ p < q
        /\ proms[p].key = "k1" /\ proms[q].key = "k1"
        /\ proms[p].state = "rejected"
        /\ Holders(p) # {}
        /\ proms[q].fetch # 0
        /\ MapHas(store, "k1") /\ CacheGet(store, "k1").promise = q

\* C5 (as claimed): no settlement of a fetch removes or replaces an entry that
\* set() installed.
C5_SetSurvivesSettlement ==
    [][\A i \in 1..Len(store) :
          (/\ proms[store[i].promise].fetch = 0
           /\ \E p \in 1..Len(proms) :
                 proms[p].state = "pending" /\ proms'[p].state # "pending")
          => \E j \in 1..Len(store') : store'[j] = store[i]]_vars

\* C6 (as claimed): a caller whose promise is rejected with the cancellation
\* error has a fired token.
C6_CancelOnlyIfFired ==
    \A c \in Tokens :
        Holding(c) =>
            \A k \in DOMAIN call[c].ret : Cancelled(call[c].ret[k]) => aborted[c]

\* C7 (as claimed): when callers share a pending fetch and the token of one of
\* them fires before the fetch settles, that caller's promise settles with a
\* cancellation failure, however the fetch settles.
C7_CancelWins ==
    \A c \in firedPending :
        (call[c].status = "one" /\ Holders(call[c].ret[call[c].keys[1]]) \ firedPending # {}) =>
            LET p == call[c].ret[call[c].keys[1]] IN
            proms[p].state # "pending" => Cancelled(p)

\* C7 (amended): that caller's promise is the promise of the other callers and
\* settles with the outcome of the fetch, value or error.
C7_CancelledCallerSharesOutcome ==
    \A c \in firedPending :
        (call[c].status = "one" /\ Holders(call[c].ret[call[c].keys[1]]) \ firedPending # {}) =>
            LET k == call[c].keys[1]
                p == call[c].ret[k]
                f == fetches[proms[p].fetch]
            IN proms[p].state # "pending" =>
                  /\ proms[p].state = f.state
                  /\ proms[p].err = f.err
                  /\ f.state = "resolved" => proms[p].val = Fetched(k)

C7_Witness ==
    /\ "A" \in firedPending
    /\ aborted["A"] /\ ~aborted["B"]
    /\ call["A"].status = "one" /\ call["B"].status = "one"
    /\ call["A"].ret = call["B"].ret
    /\ \A k \in DOMAIN call["A"].ret : proms[call["A"].ret[k]].state = "resolved"

\* C8 (as claimed): a get(keys[], token) attaches the token to the aggregator
\* of every requested key that already has an entry.
C8_GetManyAttaches ==
    [][\A c \in Tokens :
          (call[c].status = "idle" /\ call'[c].status = "many") =>
              \A i \in 1..Len(call'[c].keys) :
                  LET tk == keyTransformer(call'[c].keys[i]) IN
                  MapHas(store, tk) =>
                      c \in mgrs'[CacheGet(store, tk).abortSignalManager].signals]_vars

\* C9: a get with an already-aborted token throws the AbortError with the
\* token's reason as cause and changes nothing of the cache; a get throws
\* only in that case.
C9_Step ==
    \A c \in Tokens :
        (call[c].status = "idle" /\ call'[c].status # "idle") =>
            IF aborted[c]
            THEN /\ call'[c].status = "threw"
                 /\ call'[c].err = [name |-> "AbortError",
                                    message |-> "Operation was aborted",
                                    cause |-> <<"reason", c>>]
                 /\ UNCHANGED <<store, mgrs, listeners, fetches, proms>>
            ELSE call'[c].status # "threw"

\* C9: a get (single or multi key) called with an already fired token throws
\* the AbortError carrying the token's reason and changes neither the cache,
\* the managers nor the fetches; a get with a live token does not throw.
C9_AbortedGetThrows == [][C9_Step]_vars

C9_Witness ==
    \E c \in Tokens :
        /\ call[c].status = "threw"
        /\ MapHas(store, keyTransformer(call[c].keys[1]))
        /\ Len(call[c].keys) = 2

\* C10: after a partial abort every caller with a live token gets the fetched
\* value, and a caller that joins after another one aborted shares the
\* pending promise without a new invocation of the fetcher.
C10_LiveCallersGetValue ==
    \A p \in 1..Len(proms) :
        (/\ proms[p].fetch # 0
         /\ fetches[proms[p].fetch].state = "resolved"
         /\ proms[p].state # "pending"
         /\ \E a \in Holders(p) : aborted[a])
        => \A c \in Holders(p) :
              ~aborted[c] =>
                  /\ proms[p].state = "resolved"
                  /\ proms[p].val = Fetched(proms[p].key)

C10_JoinStep ==
    \A c \in Tokens, k \in Keys :
        LET e == store[Index(store, keyTransformer(k))] IN
        (/\ GetOneReturns(c, k)
         /\ MapHas(store, keyTransformer(k))
         /\ proms[e.promise].fetch # 0
         /\ fetches[proms[e.promise].fetch].state = "pending"
         /\ \E a \in Holders(e.promise) : aborted[a])
        => /\ call'[c].ret[k] = e.promise
           /\ fetches' = fetches

\* C10: with three callers of get(k), all hold one promise, a caller joining
\* a present entry starts no fetch, and when the fetch resolves every caller
\* whose token has not fired receives the fetched value.
C10_PartialAbort ==
    /\ []C10_LiveCallersGetValue
    /\ [][C10_JoinStep]_vars

C10_Witness ==
    \E p \in 1..Len(proms) :
        /\ Holders(p) = {"A", "B", "C"}
        /\ aborted["A"] /\ ~aborted["B"] /\ ~aborted["C"]
        /\ "A" \in firedPending
        /\ ~mgrs[fetches[proms[p].fetch].mgr].aborted
        /\ proms[p].state = "resolved"
        /\ Len(fetches) = 1

\* C11 (as claimed): once the fetch of k has resolved, and until k is deleted,
\* expires (or is overwritten by set), every single-key get(k) with a live token
\* returns the promise of that fetch and invokes the fetcher no further time.
C11_CacheHit ==
    [][\A c \in Tokens, k \in Keys :
          (GetOneReturns(c, k) /\ hitFetch[k] # 0) =>
              /\ fetches' = fetches
              /\ proms'[call'[c].ret[k]].fetch = hitFetch[k]]_vars

\* C12: a token that fires after the fetch of its caller's key has resolved
\* changes neither the store nor any promise, and the caller's promise yields
\* the fetched value.
C12_LateFired(c) ==
    /\ call[c].status = "one"
    /\ aborted[c]
    /\ c \notin firedPending
    /\ proms[call[c].ret[call[c].keys[1]]].fetch # 0
    /\ fetches[proms[call[c].ret[call[c].keys[1]]].fetch].state = "resolved"

C12_StillValue ==
    \A c \in Tokens :
        C12_LateFired(c) =>
            LET k == call[c].keys[1]
                p == call[c].ret[k]
            IN proms[p].state # "pending" =>
                  (proms[p].state = "resolved" /\ proms[p].val = Fetched(k))

C12_FireStep ==
    \A c \in Tokens :
        (~aborted[c] /\ aborted'[c] /\ C12_LateFired(c)')
            => (store' = store /\ proms' = proms /\ fetches' = fetches)

\* C12: completion wins over a late cancel: the caller still receives v and
\* the firing of the token leaves the resolved entry in the store.
C12_CompletionWins ==
    /\ []C12_StillValue
    /\ [][C12_FireStep]_vars

C12_Witness ==
    \E c \in Tokens :
        /\ C12_LateFired(c)
        /\ proms[call[c].ret[call[c].keys[1]]].state = "resolved"
        /\ MapHas(store, keyTransformer(call[c].keys[1]))
        /\ CacheGet(store, keyTransformer(call[c].keys[1])).promise = call[c].ret[call[c].keys[1]]

\* C13: right after delete(k) the store has no entry for k.
C13_DeleteRemoves ==
    lastDeleted # "" => ~MapHas(store, keyTransformer(lastDeleted))

\* C13: a promise handed out for a fetch settles with the outcome of that
\* fetch, whether or not its entry is still in the store.
C13_HandedOutSettles ==
    \A p \in 1..Len(proms) :
        (proms[p].fetch # 0 /\ proms[p].state # "pending") =>
            LET f == fetches[proms[p].fetch] IN
            /\ proms[p].state = f.state
            /\ proms[p].err = f.err
            /\ f.state = "resolved" => proms[p].val = Fetched(proms[p].key)

\* C13: the get that follows delete(k) returns a new promise of a new fetch.
C13_FreshStep ==
    \A c \in Tokens :
        (call[c].status = "idle" /\ call'[c].status \in {"one", "many"}
            /\ lastDeleted # "" /\ lastDeleted \in DOMAIN call'[c].ret) =>
            LET p == call'[c].ret[lastDeleted] IN
            /\ p > Len(proms)
            /\ proms'[p].fetch > Len(fetches)
            /\ lastDeleted \in fetches'[proms'[p].fetch].keys
            /\ fetches'[proms'[p].fetch].state = "pending"

\* C13: delete(k) removes the entry of k whatever its state; promises already
\* handed out are still settled by their fetch; the next get(k) starts a new
\* fetch and does not join the old one.
C13_DeleteStartsFresh ==
    /\ []C13_DeleteRemoves
    /\ []C13_HandedOutSettles
    /\ [][C13_FreshStep]_vars

C13_Witness ==
    \E p, q \in 1..Len(proms) :
        /\ p < q
        /\ removed["k1"]
        /\ proms[p].key = "k1" /\ proms[q].key = "k1"
        /\ proms[p].fetch # 0 /\ proms[q].fetch # 0 /\ proms[p].fetch # proms[q].fetch
        /\ proms[p].state = "resolved"
        /\ Holders(p) # {} /\ Holders(q) # {}
        /\ fetches[proms[q].fetch].state = "pending"
        /\ MapHas(store, "k1") /\ CacheGet(store, "k1").promise = q

\* C20: what a get(keys[]) of a cache built with fetchManyFn does in one call
C20_Step ==
    \A c \in Tokens :
        (call[c].status = "idle" /\ call'[c].status = "many" /\ fetcherKind = "many") =>
            LET requested == {call'[c].keys[i] : i \in 1..Len(call'[c].keys)}
                absent == {k \in requested : Index(store, keyTransformer(k)) = 0}
            IN
            /\ DOMAIN call'[c].ret = requested
            /\ \A k \in requested \ absent :
                  call'[c].ret[k] = store[Index(store, keyTransformer(k))].promise
            /\ IF absent = {}
               THEN fetches' = fetches /\ proms' = proms
               ELSE /\ Len(fetches') = Len(fetches) + 1
                    /\ SubSeq(fetches', 1, Len(fetches)) = fetches
                    /\ fetches'[Len(fetches')].keys = absent
                    /\ \A k \in absent :
                          /\ call'[c].ret[k] > Len(proms)
                          /\ proms'[call'[c].ret[k]].fetch = Len(fetches')
                          /\ proms'[call'[c].ret[k]].key = k

\* C20: a batch get invokes fetchManyFn once, with exactly the requested keys
\* that have no entry, and not at all when every key is present; the returned
\* map has one promise per distinct requested key, and a present key maps to
\* the promise of its existing entry.
C20_BatchGet == [][C20_Step]_vars

C20_Witness ==
    \E c \in Tokens :
        /\ fetcherKind = "many"
        /\ call[c].status = "many"
        /\ call[c].keys = <<"k1", "k2">>
        /\ proms[call[c].ret["k1"]].fetch # proms[call[c].ret["k2"]].fetch
        /\ proms[call[c].ret["k1"]].fetch # 0
        /\ fetches[proms[call[c].ret["k2"]].fetch].keys = {"k2"}

\* C14 (as claimed): in NoCache, while the fetch that opened the window of k
\* is in flight (no explicit delete), every get(k) returns the promise of that
\* fetch and the fetcher is not invoked for k again.
C14_NoCacheCoalescing ==
    \A k \in Keys :
        winFetch[k] # 0 =>
            /\ \A p \in winProms[k] : proms[p].fetch = winFetch[k]
            /\ \A f \in 1..Len(fetches) : (f > winFetch[k]) => k \notin fetches[f].keys

\* C15: a finally callback leaves no entry under its key
C15_FinallyStep ==
    \A p \in 1..Len(finallys) :
        (finallys'[p] < finallys[p]) => ~MapHas(store', keyTransformer(proms[p].key))

\* C15: every stored entry still has a finally callback to come
C15_Hooked ==
    \A i \in 1..Len(store) :
        /\ store[i].promise <= Len(finallys)
        /\ finallys[store[i].promise] > 0

\* C15: when every fetch has settled and every callback has run, nothing is stored
C15_Quiescent ==
    (/\ \A f \in 1..Len(fetches) : fetches[f].state # "pending"
     /\ \A p \in 1..Len(proms) : proms[p].state # "pending"
     /\ \A p \in 1..Len(finallys) : finallys[p] = 0)
    => store = <<>>

\* C15: NoCache keeps nothing in steady state: after a fetched promise has
\* settled and its callbacks have run there is no entry for its key, and once
\* all fetches have settled the store is empty.
C15_NoRetention ==
    /\ []C15_Hooked
    /\ []C15_Quiescent
    /\ [][C15_FinallyStep]_vars

C15_Witness ==
    /\ Len(proms) = 3
    /\ \E p, q \in 1..Len(proms) : proms[p].state = "resolved" /\ proms[q].state = "rejected"
    /\ \A p \in 1..Len(proms) : proms[p].state # "pending" /\ finallys[p] = 0
    /\ \E c \in Tokens : call[c].status = "many"
    /\ store = <<>>

\* the promise of key k of a multi-key get is held by no entry any more
LayerPurged(p) == \A i \in 1..Len(lcache) : lcache[i].promise # p

\* C16 (as claimed): when the chain of a multi-key get is exhausted, the promise
\* of every key that is left is rejected with the 'no fetcher' failure.
C16_ExhaustedKeysRejected ==
    \A b \in 1..Len(batches) :
        batches[b].state = "threw" =>
            \A k \in DOMAIN batches[b].pending :
                /\ lproms[batches[b].pending[k]].state = "rejected"
                /\ lproms[batches[b].pending[k]].err = NoFetcherError

\* C17 (as claimed): when a fetcher of the chain rejects, the promises of the
\* affected keys are rejected with that error and their entries are removed.
C17_FailurePurges ==
    /\ \A r \in 1..Len(chains) :
          chains[r].state = "failed" =>
              /\ lproms[chains[r].promise].state = "rejected"
              /\ lproms[chains[r].promise].err \in LayerErrors
              /\ LayerPurged(chains[r].promise)
    /\ \A b \in 1..Len(batches) :
          (batches[b].failed /\ batches[b].state = "dead") =>
              \A k \in DOMAIN batches[b].pending :
                  /\ lproms[batches[b].pending[k]].state = "rejected"
                  /\ lproms[batches[b].pending[k]].err \in LayerErrors
                  /\ LayerPurged(batches[b].pending[k])

\* C18 (as claimed): when every fetcher returned null for a single key, the
\* promise fails with the 'no fetcher' error and its entry is purged.
C18_ExhaustionPurges ==
    \A r \in 1..Len(chains) :
        (/\ chains[r].state = "done"
         /\ Len(chains[r].results) = Len(fetchers)
         /\ chains[r].results[Len(fetchers)] = Null)
        => /\ lproms[chains[r].promise].state = "rejected"
           /\ lproms[chains[r].promise].err = NoFetcherError
           /\ LayerPurged(chains[r].promise)

\* C19: what the chain of one single-key get has done so far
C19_InOrder ==
    \A r \in 1..Len(chains) :
        LET c == chains[r] IN
        /\ c.idx \in 1..Len(fetchers)
        /\ c.invoked = [i \in 1..c.idx |-> i]
        /\ Len(c.results) = IF c.state = "awaiting" THEN c.idx - 1 ELSE c.idx
        /\ \A i \in 1..(c.idx - 1) : c.results[i] = Null
        /\ lproms[c.promise].state = "pending" <=> c.state = "awaiting"
        /\ lproms[c.promise].state = "resolved" =>
              /\ c.results[c.idx] # Null
              /\ c.results[c.idx] = FetcherItem(c.idx, c.key)
              /\ lproms[c.promise].val = c.results[c.idx]

\* C19: a chain that has settled its promise invokes nothing further
C19_StopStep ==
    \A r \in 1..Len(chains) :
        chains[r].state # "awaiting" => chains'[r] = chains[r]

\* C19: on a miss, get(k) invokes the fetchers in list order, the next one only
\* after the one before returned null, resolves to the first non-null value and
\* invokes no fetcher after it.
C19_ChainOrder ==
    /\ []C19_InOrder
    /\ [][C19_StopStep]_vars

C19_Witness ==
    \E r \in 1..Len(chains) :
        /\ Len(fetchers) = 3
        /\ chains[r].state = "done"
        /\ chains[r].invoked = <<1, 2>>
        /\ chains[r].results = <<Null, FetcherItem(2, chains[r].key)>>
        /\ lproms[chains[r].promise].state = "resolved"
        /\ lproms[chains[r].promise].val = FetcherItem(2, chains[r].key)

\* C21: the keys still in a keyPromisesMap are the keys whose promise is pending
C21_PendingArePending ==
    \A b \in 1..Len(batches) :
        \A k \in DOMAIN batches[b].pending :
            lproms[batches[b].pending[k]].state = "pending"

\* C21: the step in which a batch fetcher of a multi-key chain returns
C21_Step ==
    \A b \in 1..Len(batches) :
        LET B == batches[b]
            B2 == batches'[b]
        IN
        (/\ B.state = "awaiting"
         /\ fetchers[B.idx] = "many"
         /\ B2 # B
         /\ ~B2.failed)
        => /\ \A k \in DOMAIN B.pending :
                 \/ /\ lproms'[B.pending[k]].state = "resolved"
                    /\ lproms'[B.pending[k]].val = FetcherItem(B.idx, k)
                    /\ k \notin DOMAIN B2.pending
                 \/ /\ lproms'[B.pending[k]] = lproms[B.pending[k]]
                    /\ k \in DOMAIN B2.pending
                    /\ B2.pending[k] = B.pending[k]
           /\ (DOMAIN B2.pending # {} /\ B.idx < Len(fetchers)) =>
                 /\ B2.idx = B.idx + 1
                 /\ B2.invoked = Append(B.invoked,
                                        [fetcher |-> B.idx + 1, keys |-> DOMAIN B2.pending])

\* C21: a settled promise is not settled again
C21_OnceStep ==
    \A p \in 1..Len(lproms) :
        lproms[p].state # "pending" => lproms'[p] = lproms[p]

\* C21: a batch fetcher of the multi-key chain settles every pending key whose
\* selected result is non-null with that result, hands exactly the keys that
\* are left to the next fetcher, and no promise is settled twice.
C21_BatchSelector ==
    /\ []C21_PendingArePending
    /\ [][C21_Step /\ C21_OnceStep]_vars

C21_Witness ==
    \E b \in 1..Len(batches) :
        /\ fetchers = <<"many", "one">>
        /\ batches[b].state = "awaiting"
        /\ batches[b].invoked = <<[fetcher |-> 1, keys |-> {"k1", "k2"}],
                                  [fetcher |-> 2, keys |-> {"k2"}]>>
        /\ DOMAIN batches[b].pending = {"k2"}
        /\ \E p \in 1..Len(lproms) :
              lproms[p].state = "resolved" /\ lproms[p].val = FetcherItem(1, "k1")

\* options.maxEntries values a cache may be constructed with (ignored by the constructor)
CapacityOptions == {1}

\* C22: with maxEntries = C and rollingExpiration = false the store never holds
\* more than C entries (the C most recently inserted keys survive).
C22_CapacityBound ==
    \A C \in CapacityOptions :
        rollingExpiration = FALSE => Len(store) <= C

\* C24: once the shared fetch of an entry has settled, and the promises made
\* from it with it, the entry's aggregator holds no caller token and listens
\* on no caller token.
C24_AggregatorCleanup ==
    \A f \in 1..Len(fetches) :
        (/\ fetches[f].state # "pending"
         /\ \A p \in 1..Len(proms) :
               proms[p].fetch = f => proms[p].state # "pending")
        => /\ mgrs[fetches[f].mgr].signals = {}
           /\ \A t \in Tokens : fetches[f].mgr \notin listeners[t]

\* C29: whenever a get of caller c (single-key or multi-key) starts a fetch,
\* c's token is in the entry's aggregator at the moment the fetcher is called
\* with the derived signal.
C29_TokenBeforeFetch ==
    [][\A c \in Tokens :
          (/\ call[c].status = "idle"
           /\ call'[c].status \in {"one", "many"}
           /\ Len(fetches') > Len(fetches))
          => c \in fetches'[Len(fetches')].seeded]_vars


\* ------------------------------------------------------------ set, then get
\* MemoryCache and LayerCache side by side, one key, two values to set
MaxPromSet == 2
MaxLayerPromSet == 2
SetValues2 == {<<"set", "v1">>, <<"set", "v2">>}

InitSet ==
    /\ InitLayer
    /\ fetchers = <<"one", "one", "one">>

NextSet ==
    \/ \E c \in Callers2 : GetOne(c, "k1") /\ Len(proms') <= MaxPromSet /\ UNCHANGED finallys /\ UNCHANGED layerVars /\ UNCHANGED auxVars
    \/ \E v \in SetValues2 : Set("k1", v) /\ Len(proms') <= MaxPromSet /\ UNCHANGED finallys /\ UNCHANGED layerVars /\ UNCHANGED auxVars
    \/ Delete("k1") /\ UNCHANGED finallys /\ UNCHANGED layerVars /\ UNCHANGED auxVars
    \/ \E t \in Callers2 : Abort(t) /\ UNCHANGED finallys /\ UNCHANGED layerVars /\ UNCHANGED auxVars
    \/ \E f \in 1..Len(fetches) : FetchResolve(f, [k \in fetches[f].keys |-> Fetched(k)]) /\ UNCHANGED finallys /\ UNCHANGED layerVars /\ UNCHANGED auxVars
    \/ \E f \in 1..Len(fetches), e \in Errors : FetchReject(f, e) /\ UNCHANGED finallys /\ UNCHANGED layerVars /\ UNCHANGED auxVars
    \/ \E p \in 1..Len(proms) : Settle(p) /\ UNCHANGED finallys /\ UNCHANGED layerVars /\ UNCHANGED auxVars
    \/ LayerGetOne("k1") /\ Len(lproms') <= MaxLayerPromSet /\ UNCHANGED memVars /\ UNCHANGED auxVars
    \/ \E v \in SetValues2 : LayerSet("k1", v) /\ Len(lproms') <= MaxLayerPromSet /\ UNCHANGED memVars /\ UNCHANGED auxVars
    \/ LayerDelete("k1") /\ UNCHANGED memVars /\ UNCHANGED auxVars

SpecSet == InitSet /\ [][NextSet]_vars

\* C25 (MemoryCache): a single-key get(k) that returns right after a set(k, v)
\* returns the promise that set made, resolved with v, and starts no fetch
C25_GetStep ==
    \A c \in Tokens, k \in Keys :
        (/\ GetOneReturns(c, k)
         /\ lastSet # 0
         /\ proms[lastSet].key = k)
        => /\ fetches' = fetches
           /\ call'[c].ret[k] = lastSet
           /\ proms'[lastSet].state = "resolved"
           /\ proms'[lastSet].fetch = 0

\* C25 (LayerCache): right after set(k, v) the promise stored under k, the one
\* every get(k) returns, is the one that set made
C25_LayerSetStep ==
    \A k \in Keys :
        (/\ Len(lproms') = Len(lproms) + 1
         /\ lproms'[Len(lproms')].state = "resolved"
         /\ lproms'[Len(lproms')].key = k)
        => LET i == Index(lcache', keyTransformer(k)) IN
           /\ i # 0
           /\ lcache'[i].promise = Len(lproms')

\* C25: set is last-writer-wins: after set(k, v1); set(k, v2), get(k) resolves
\* to v2, the value of the last set, and the fetcher is not invoked.
C25_LastWriterWins == [][C25_GetStep /\ C25_LayerSetStep]_vars

C25_Witness ==
    /\ Len(proms) = 2
    /\ proms[1] = [key |-> "k1", fetch |-> 0, state |-> "resolved",
                   val |-> <<"set", "v1">>, err |-> ""]
    /\ proms[2] = [key |-> "k1", fetch |-> 0, state |-> "resolved",
                   val |-> <<"set", "v2">>, err |-> ""]
    /\ fetches = <<>>
    /\ call["A"].status = "one"
    /\ call["A"].ret["k1"] = 2
    /\ Len(lproms) = 2
    /\ lproms[2].val = <<"set", "v2">>
    /\ lcache[1].promise = 2



\* ------------------------------------------------------------ rolling expiration
\* MemoryCache constructed with rollingExpiration: true, two keys
MaxPromRolling == 3

InitRolling ==
    /\ Init
    /\ rollingExpiration = TRUE

NextRolling ==
    \/ \E c \in Callers2, k \in Keys : GetOne(c, k) /\ Len(proms') <= MaxPromRolling /\ UNCHANGED finallys /\ UNCHANGED layerVars /\ UNCHANGED auxVars
    \/ \E c \in Callers2, ks \in KeyLists : GetMany(c, ks) /\ Len(proms') <= MaxPromRolling /\ UNCHANGED finallys /\ UNCHANGED layerVars /\ UNCHANGED auxVars
    \/ \E k \in Keys, v \in SetValues : Set(k, v) /\ Len(proms') <= MaxPromRolling /\ UNCHANGED finallys /\ UNCHANGED layerVars /\ UNCHANGED auxVars
    \/ \E k \in Keys : Delete(k) /\ UNCHANGED finallys /\ UNCHANGED layerVars /\ UNCHANGED auxVars
    \/ \E f \in 1..Len(fetches) : FetchResolve(f, [k \in fetches[f].keys |-> Fetched(k)]) /\ UNCHANGED finallys /\ UNCHANGED layerVars /\ UNCHANGED auxVars
    \/ \E p \in 1..Len(proms) : Settle(p) /\ UNCHANGED finallys /\ UNCHANGED layerVars /\ UNCHANGED auxVars

SpecRolling == InitRolling /\ [][NextRolling]_vars

\* a single-key get(k) that finds an entry leaves it at the tail of the store
C30_ReadStep ==
    \A c \in Tokens, k \in Keys :
        (GetOneReturns(c, k) /\ Index(store, keyTransformer(k)) # 0)
        => store'[Len(store')].key = keyTransformer(k)

\* a set of an existing key leaves its entry at the tail of the store
C30_SetStep ==
    \A k \in Keys :
        (/\ lastSet' # 0
         /\ proms'[lastSet'].key = k
         /\ Index(store, keyTransformer(k)) # 0)
        => store'[Len(store')].key = keyTransformer(k)

\* C30: with rollingExpiration = true every successful read of an existing
\* entry and every set of an existing key re-inserts the entry, which moves it
\* to the tail of the store's insertion order.
C30_RollingRefresh == [][rollingExpiration => (C30_ReadStep /\ C30_SetStep)]_vars


\* ------------------------------------------------------------ AbortSignalManager alone
\* One manager, mgrs[1], driven through its public methods and by its tokens.
\* s.m: the manager; s.on: the tokens that carry its 'abort' listener;
\* s.ctl: the calls of controller.abort()
MgrState == [m |-> mgrs[1], on |-> {t \in Tokens : 1 \in listeners[t]}, ctl |-> controller]

\* what a listener may call on the manager while an 'abort' event is dispatched
ReentrantCalls ==
    {<<"none">>, <<"cleanup">>}
        \cup {<<"addSignal", t>> : t \in Tokens}
        \cup {<<"removeSignal", t>> : t \in Tokens}

mgrAddSignal(s, t, ab) ==
    IF ab[t] THEN s
    ELSE [s EXCEPT !.m.signals = @ \cup {t}, !.on = @ \cup {t}]

mgrCleanup(s) == [s EXCEPT !.m.signals = {}, !.on = @ \ s.m.signals]

RECURSIVE mgrCheck(_, _, _)
RECURSIVE mgrCall(_, _, _, _)

\* checkAndAbortIfNeeded(); re: the call a listener of the derived signal makes
\* between controller.abort() and this.cleanup()
mgrCheck(s, ab, re) ==
    IF checkAndAbortIfNeeded(s.m, ab)
    THEN mgrCleanup(mgrCall([s EXCEPT !.m.aborted = TRUE,
                                      !.ctl = [aborts |-> @.aborts + 1,
                                               sawSignals |-> s.m.signals]],
                            re, ab, <<"none">>))
    ELSE s

mgrRemoveSignal(s, t, ab, re) ==
    IF t \in s.m.signals
    THEN mgrCheck([s EXCEPT !.m.signals = @ \ {t}, !.on = @ \ {t}], ab, re)
    ELSE s

mgrCall(s, c, ab, re) ==
    CASE c[1] = "none" -> s
      [] c[1] = "cleanup" -> mgrCleanup(s)
      [] c[1] = "addSignal" -> mgrAddSignal(s, c[2], ab)
      [] c[1] = "removeSignal" -> mgrRemoveSignal(s, c[2], ab, re)

MgrApply(s) ==
    /\ mgrs' = <<s.m>>
    /\ listeners' = [t \in Tokens |-> IF t \in s.on THEN {1} ELSE {}]
    /\ controller' = s.ctl

\* new AbortSignalManager()
MgrNew ==
    /\ mgrs = <<>>
    /\ mgrs' = <<NewManager>>
    /\ UNCHANGED <<aborted, listeners, controller>>

MgrAddSignal(t) ==
    /\ mgrs # <<>>
    /\ MgrApply(mgrAddSignal(MgrState, t, aborted))
    /\ UNCHANGED aborted

MgrRemoveSignal(t, re) ==
    /\ mgrs # <<>>
    /\ MgrApply(mgrRemoveSignal(MgrState, t, aborted, re))
    /\ UNCHANGED aborted

MgrCleanup ==
    /\ mgrs # <<>>
    /\ MgrApply(mgrCleanup(MgrState))
    /\ UNCHANGED aborted

\* token t fires: a listener registered on t before the manager's may call the
\* manager first (pre); then the manager's own once-listener runs, if still there
MgrTokenAbort(t, pre, re) ==
    /\ mgrs # <<>>
    /\ ~aborted[t]
    /\ aborted' = [aborted EXCEPT ![t] = TRUE]
    /\ LET s1 == mgrCall(MgrState, pre, aborted', re)
       IN
       MgrApply(IF t \in s1.on
                THEN mgrCheck([s1 EXCEPT !.on = @ \ {t}], aborted', re)
                ELSE s1)

MgrRest ==
    UNCHANGED <<fetches, proms, store, call, rollingExpiration, fetcherKind, removed,
                winFetch, winProms, firedPending, hitFetch, lastDeleted, lastSet,
                finallys, ttl, anyOf, keyMap, tracker, retry>>

NextManager ==
    \/ MgrNew /\ MgrRest /\ UNCHANGED layerVars
    \/ \E t \in Tokens : MgrAddSignal(t) /\ MgrRest /\ UNCHANGED layerVars
    \/ \E t \in Tokens, re \in ReentrantCalls : MgrRemoveSignal(t, re) /\ MgrRest /\ UNCHANGED layerVars
    \/ MgrCleanup /\ MgrRest /\ UNCHANGED layerVars
    \/ \E t \in Tokens, pre \in ReentrantCalls, re \in ReentrantCalls :
          MgrTokenAbort(t, pre, re) /\ MgrRest /\ UNCHANGED layerVars

SpecManager == InitThree /\ [][NextManager]_vars

\* C27: controller.abort() is called at most once
C27_FiresOnce == controller.aborts <= 1

\* C27: the derived signal never goes back, and in the step in which it fires
\* the token set is emptied and no token carries the manager's listener
C27_FireStep ==
    /\ (mgrs # <<>> /\ mgrs[1].aborted) => mgrs'[1].aborted
    /\ (controller'.aborts > controller.aborts) =>
          /\ mgrs'[1].aborted
          /\ mgrs'[1].signals = {}
          /\ \A t \in Tokens : 1 \notin listeners'[t]

\* C27: over any sequence of addSignal, removeSignal, cleanup and token aborts,
\* re-entrant calls from abort listeners included, the manager's derived signal
\* fires at most once, and when it fires the token set is emptied and the
\* listeners on all remaining tokens are removed.
C27_FiresOnceAndCleans == []C27_FiresOnce /\ [][C27_FireStep]_vars

C27_Witness ==
    /\ controller.aborts = 1
    /\ controller.sawSignals = {"A", "B"}
    /\ aborted["A"] /\ aborted["B"] /\ ~aborted["C"]
    /\ mgrs[1].aborted
    /\ mgrs[1].signals = {}
    /\ \A t \in Tokens : listeners[t] = {}

\* C28: the derived signal fires only at a moment when the manager's token set
\* is non-empty and every token in it is aborted.
C28_NeverSpurious ==
    controller.aborts > 0 =>
        /\ controller.sawSignals # {}
        /\ \A s \in controller.sawSignals : aborted[s]


\* ------------------------------------------------------------ abortSignalAny (emulated)
\* The branch taken when the platform has no AbortSignal.any.
MaxSignals == 2
SignalLists == UNION {[1..n -> Tokens] : n \in 0..MaxSignals}

\* abortFn: removes itself from every input, aborts the controller unless aborted
abortFn(a) ==
    [a EXCEPT !.listeners = @ \ Range(a.signals),
              !.aborted = TRUE,
              !.aborts = IF a.aborted THEN @ ELSE @ + 1]

\* for (const signal of signals): abort and break on an aborted input, listen otherwise
RECURSIVE anyLoop(_, _, _)
anyLoop(a, i, ab) ==
    IF i > Len(a.signals) THEN a
    ELSE IF ab[a.signals[i]] THEN abortFn(a)
    ELSE anyLoop([a EXCEPT !.listeners = @ \cup {a.signals[i]}], i + 1, ab)

\* mutant: the loop only registers listeners
abortSignalAny_NoInitialCheck(signals, ab) ==
    [NoAnyOf EXCEPT !.made = TRUE, !.signals = signals, !.listeners = Range(signals)]

abortSignalAny(signals, ab) ==
    anyLoop([NoAnyOf EXCEPT !.made = TRUE, !.signals = signals], 1, ab)

AnyCall(signals) ==
    /\ ~anyOf.made
    /\ anyOf' = abortSignalAny(signals, aborted)
    /\ UNCHANGED aborted

\* input t fires; abortFn runs if it is registered on t
AnyTokenAbort(t) ==
    /\ ~aborted[t]
    /\ aborted' = [aborted EXCEPT ![t] = TRUE]
    /\ anyOf' = IF t \in anyOf.listeners THEN abortFn(anyOf) ELSE anyOf

AnyRest ==
    UNCHANGED <<listeners, mgrs, fetches, proms, store, call, rollingExpiration,
                fetcherKind, removed, winFetch, winProms, firedPending, hitFetch,
                lastDeleted, lastSet, finallys, ttl, controller, keyMap, tracker, retry>>

NextAny ==
    \/ \E signals \in SignalLists : AnyCall(signals) /\ AnyRest /\ UNCHANGED layerVars
    \/ \E t \in Tokens : AnyTokenAbort(t) /\ AnyRest /\ UNCHANGED layerVars

SpecAny == InitThree /\ [][NextAny]_vars

\* C26: the signal returned by the emulated abortSignalAny is aborted exactly
\* when at least one input signal is aborted, from the moment of the call on;
\* its controller is aborted at most once and never when no input has fired.
C26_AnyOf ==
    anyOf.made =>
        /\ anyOf.aborted <=> \E i \in 1..Len(anyOf.signals) : aborted[anyOf.signals[i]]
        /\ anyOf.aborts = IF anyOf.aborted THEN 1 ELSE 0

C26_Witness ==
    /\ anyOf.made
    /\ anyOf.signals = <<"A", "B">>
    /\ ~aborted["A"]
    /\ aborted["B"]
    /\ anyOf.aborted
    /\ anyOf.aborts = 1
    /\ anyOf.listeners = {}


\* ------------------------------------------------------------ cacheExpirationMs
\* MemoryCache over new ExpiryMap(cacheExpirationMs). Time moves in ticks; the
\* map drops an entry cacheExpirationMs ticks after the last cache.set of its
\* key, before any later operation can see it.
cacheExpirationMs == 2
MaxPromTTL == 2

Later(n) == IF n < cacheExpirationMs THEN n + 1 ELSE n

\* no entry is due: every entry in the map is younger than cacheExpirationMs
Unexpired ==
    \A k \in Keys : Index(store, keyTransformer(k)) # 0 => ttl.age[k] < cacheExpirationMs

\* mutant: get re-sets the entries it finds whatever rollingExpiration says
Stamped_Always(ks) == ks

\* the keys for which a get of ks calls cache.set: the ones it inserts, and
\* with rollingExpiration the ones it finds as well
Stamped(ks) ==
    {k \in ks : Index(store, keyTransformer(k)) = 0 \/ rollingExpiration}

\* clocks after a get of ks that returned: age restarts where cache.set ran;
\* history: inserted restarts for the keys inserted, accessed for every key read
AfterGet(ks) ==
    [age |-> [k \in Keys |-> IF k \in Stamped(ks) THEN 0 ELSE ttl.age[k]],
     inserted |-> [k \in Keys |->
                     IF k \in ks /\ Index(store, keyTransformer(k)) = 0
                     THEN 0 ELSE ttl.inserted[k]],
     accessed |-> [k \in Keys |-> IF k \in ks THEN 0 ELSE ttl.accessed[k]]]

TTLGetOne(c, k) ==
    /\ Unexpired
    /\ GetOne(c, k)
    /\ ttl' = IF call'[c].status = "one" THEN AfterGet({k}) ELSE ttl

TTLGetMany(c, ks) ==
    /\ Unexpired
    /\ GetMany(c, ks)
    /\ ttl' = IF call'[c].status = "many" THEN AfterGet(Range(ks)) ELSE ttl

TTLSet(k, v) ==
    /\ Unexpired
    /\ Set(k, v)
    /\ ttl' = [age |-> [ttl.age EXCEPT ![k] = 0],
               inserted |-> [ttl.inserted EXCEPT ![k] = 0],
               accessed |-> [ttl.accessed EXCEPT ![k] = 0]]

\* one tick passes
Tick ==
    /\ Unexpired
    /\ ttl' = [age |-> [k \in Keys |-> Later(ttl.age[k])],
               inserted |-> [k \in Keys |-> Later(ttl.inserted[k])],
               accessed |-> [k \in Keys |-> Later(ttl.accessed[k])]]
    /\ UNCHANGED memVars

\* the map drops the entry whose age reached cacheExpirationMs
TTLExpire(k) ==
    /\ ttl.age[k] >= cacheExpirationMs
    /\ Expire(k)
    /\ UNCHANGED ttl

NextTTL ==
    \/ \E c \in Tokens : TTLGetOne(c, "k1") /\ Len(proms') <= MaxPromTTL /\ UNCHANGED <<finallys, anyOf, controller, keyMap, tracker, retry>> /\ UNCHANGED layerVars
    \/ \E c \in Tokens : TTLGetMany(c, <<"k1", "k2">>) /\ Len(proms') <= MaxPromTTL /\ UNCHANGED <<finallys, anyOf, controller, keyMap, tracker, retry>> /\ UNCHANGED layerVars
    \/ \E v \in SetValues : TTLSet("k1", v) /\ Len(proms') <= MaxPromTTL /\ UNCHANGED <<finallys, anyOf, controller, keyMap, tracker, retry>> /\ UNCHANGED layerVars
    \/ Tick /\ UNCHANGED <<anyOf, controller, keyMap, tracker, retry>> /\ UNCHANGED layerVars
    \/ \E k \in Keys : TTLExpire(k) /\ UNCHANGED <<finallys, anyOf, controller, keyMap, tracker, retry>> /\ UNCHANGED layerVars
    \/ \E t \in Tokens : Abort(t) /\ UNCHANGED <<finallys, ttl, anyOf, controller, keyMap, tracker, retry>> /\ UNCHANGED layerVars
    \/ \E f \in 1..Len(fetches) : FetchResolve(f, [k \in fetches[f].keys |-> Fetched(k)]) /\ UNCHANGED <<finallys, ttl, anyOf, controller, keyMap, tracker, retry>> /\ UNCHANGED layerVars
    \/ \E p \in 1..Len(proms) : Settle(p) /\ UNCHANGED <<finallys, ttl, anyOf, controller, keyMap, tracker, retry>> /\ UNCHANGED layerVars

InitTTL ==
    /\ Init
    /\ fetcherKind = "one"

SpecTTL == InitTTL /\ [][NextTTL]_vars

\* the time the claim measures for key k: since insertion, or since the last
\* access when rollingExpiration is set
Elapsed(k) == IF rollingExpiration THEN ttl.accessed[k] ELSE ttl.inserted[k]

\* C23: an entry the operations can see is younger than cacheExpirationMs,
\* counted from its insertion (from its last access with rollingExpiration)
C23_Visible ==
    \A k \in Keys :
        (Unexpired /\ Index(store, keyTransformer(k)) # 0)
        => Elapsed(k) < cacheExpirationMs

\* C23: a get(k) made when that time has run out is a miss and calls the fetcher
C23_MissStep ==
    \A c \in Tokens, k \in Keys :
        (GetOneReturns(c, k) /\ Elapsed(k) >= cacheExpirationMs)
        => /\ Len(fetches') = Len(fetches) + 1
           /\ proms'[call'[c].ret[k]].fetch = Len(fetches')

\* C23: with cacheExpirationMs = T an entry is visible only while less than T
\* has passed since its insertion (non-rolling) or its last access (rolling),
\* and a get(k) after that is a miss that invokes the fetcher again.
C23_TTLHonoured == []C23_Visible /\ [][C23_MissStep]_vars

C23_Witness ==
    /\ Len(fetches) = 2
    /\ fetches[1].keys = {"k1"}
    /\ fetches[1].state = "resolved"
    /\ proms[1].state = "resolved"
    /\ fetches[2].keys = {"k1"}
    /\ Index(store, keyTransformer("k1")) # 0
    /\ ttl.accessed["k1"] = 0


\* the entries a multi-key get over fetchManyFn installs share the manager
\* whose signal the fetcher got
C31_SharedStep ==
    \A c \in Tokens :
        (/\ call[c].status = "idle"
         /\ call'[c].status = "many"
         /\ fetcherKind = "many"
         /\ Len(fetches') > Len(fetches))
        => /\ Len(fetches') = Len(fetches) + 1
           /\ fetches'[Len(fetches')].seeded = {c}
           /\ \A k \in fetches'[Len(fetches')].keys :
                 LET i == Index(store', keyTransformer(k)) IN
                 /\ i # 0
                 /\ store'[i].abortSignalManager = fetches'[Len(fetches')].mgr

\* the callers of fetch f: the one whose token seeded the manager, and those
\* that were handed one of its promises by a single-key get
C31_Attached(f) ==
    fetches[f].seeded \cup
    {c \in Tokens : /\ call[c].status = "one"
                    /\ \E k \in DOMAIN call[c].ret : proms[call[c].ret[k]].fetch = f}

\* the step in which the signal given to a fetcher fires
C31_FireStep ==
    \A f \in 1..Len(fetches) :
        (~mgrs[fetches[f].mgr].aborted /\ mgrs'[fetches[f].mgr].aborted)
        => \A c \in C31_Attached(f) : aborted'[c]

\* C31: the entries installed by one batched get(keys[], token) share one
\* aggregator, and the signal given to fetchManyFn fires only when the batch
\* caller's token and every token attached since through get on a key of the
\* batch have all fired.
C31_SharedAggregator == [][C31_SharedStep /\ C31_FireStep]_vars

C31_Witness ==
    /\ fetcherKind = "many"
    /\ Len(fetches) = 1
    /\ fetches[1].keys = {"k1", "k2"}
    /\ fetches[1].seeded = {"A"}
    /\ fetches[1].state = "pending"
    /\ call["A"].status = "many"
    /\ call["B"].status = "one"
    /\ call["B"].keys = <<"k2">>
    /\ aborted["A"] /\ aborted["B"]
    /\ mgrs[1].aborted
    /\ mgrs[1].signals = {}


\* C36: the rejection handler of a fetch removes only the entry that this
\* fetch installed: when a promise rejects, every entry that holds another
\* promise stays in the store.
C36_RejectionRemovesOwnEntry ==
    [][\A p \in 1..Len(proms) :
          (proms[p].state = "pending" /\ proms'[p].state = "rejected")
          => \A i \in 1..Len(store) :
                store[i].promise # p => \E j \in 1..Len(store') : store'[j] = store[i]]_vars


\* ------------------------------------------------------------ colliding keys
\* MemoryCache constructed with a keyTransformer that sends both keys to "k"
MaxPromAlias == 3

InitAlias ==
    /\ aborted = [t \in Tokens |-> FALSE]
    /\ listeners = [t \in Tokens |-> {}]
    /\ mgrs = <<>>
    /\ fetches = <<>>
    /\ proms = <<>>
    /\ store = <<>>
    /\ call = [t \in Tokens |-> Idle]
    /\ rollingExpiration = FALSE
    /\ fetcherKind \in {"one", "many"}
    /\ removed = [k \in Keys |-> FALSE]
    /\ winFetch = [k \in Keys |-> 0]
    /\ winProms = [k \in Keys |-> {}]
    /\ firedPending = {}
    /\ hitFetch = [k \in Keys |-> 0]
    /\ lastDeleted = ""
    /\ lastSet = 0
    /\ finallys = <<>>
    /\ fetchers = <<>>
    /\ lcache = <<>>
    /\ lproms = <<>>
    /\ chains = <<>>
    /\ batches = <<>>
    /\ ttl = NoClock
    /\ anyOf = NoAnyOf
    /\ controller = NoAbortCall
    /\ tracker = NoTracker
    /\ retry = NoRetry
    /\ keyMap = [k \in Keys |-> "k"]

NextAlias ==
    \/ \E c \in Callers2, k \in Keys : GetOne(c, k) /\ Len(proms') <= MaxPromAlias /\ UNCHANGED finallys /\ UNCHANGED layerVars /\ UNCHANGED auxVars
    \/ \E c \in Callers2 : GetMany(c, <<"k1", "k2">>) /\ Len(proms') <= MaxPromAlias /\ UNCHANGED finallys /\ UNCHANGED layerVars /\ UNCHANGED auxVars
    \/ \E k \in Keys : Delete(k) /\ UNCHANGED finallys /\ UNCHANGED layerVars /\ UNCHANGED auxVars
    \/ \E f \in 1..Len(fetches) : FetchResolve(f, [k \in fetches[f].keys |-> Fetched(k)]) /\ UNCHANGED finallys /\ UNCHANGED layerVars /\ UNCHANGED auxVars
    \/ \E f \in 1..Len(fetches), e \in Errors : FetchReject(f, e) /\ UNCHANGED finallys /\ UNCHANGED layerVars /\ UNCHANGED auxVars
    \/ \E p \in 1..Len(proms) : Settle(p) /\ UNCHANGED finallys /\ UNCHANGED layerVars /\ UNCHANGED auxVars

SpecAlias == InitAlias /\ [][NextAlias]_vars

\* C38: a multi-key get of two distinct absent keys with one transformed key
\* starts a single fetch and installs a single entry, and both keys map to
\* that entry's promise.
C38_OneEntryPerTransformedKey ==
    [][\A c \in Tokens :
          (/\ call[c].status = "idle"
           /\ call'[c].status = "many"
           /\ call'[c].keys = <<"k1", "k2">>
           /\ keyTransformer("k1") = keyTransformer("k2")
           /\ Index(store, keyTransformer("k1")) = 0)
          => /\ Len(fetches') = Len(fetches) + 1
             /\ Len(store') = Len(store) + 1
             /\ call'[c].ret["k1"] = store'[Index(store', keyTransformer("k1"))].promise
             /\ call'[c].ret["k2"] = store'[Index(store', keyTransformer("k1"))].promise]_vars


\* C37: once every fetcher invocation made for a multi-key get has settled and
\* the chain has nothing left to run, every promise the get returned is settled.
C37_BatchSettles ==
    \A b \in 1..Len(batches) :
        batches[b].state \in {"done", "threw", "dead"}
        => \A k \in DOMAIN batches[b].pending :
              lproms[batches[b].pending[k]].state # "pending"


\* ------------------------------------------------------------ SharedFetchTracker
MaxCallers == 3
TrackerResults == {<<"value", "v">>, Undefined}
TrackerErrors == {<<"error", "E">>}
DOMAbortError == <<"DOMException", "AbortError">>

TrkPromise(t, st, v) == [signal |-> t, state |-> st, val |-> v]

\* addCaller(signal)
TrkAddCaller(t) ==
    /\ Len(tracker.promises) < MaxCallers
    /\ LET p == Len(tracker.promises) + 1 IN
       tracker' =
          IF aborted[t]
          THEN [tracker EXCEPT !.promises = Append(@, TrkPromise(t, "rejected", DOMAbortError))]
          ELSE IF tracker.isResolved /\ tracker.sharedResult # Undefined
          THEN [tracker EXCEPT !.promises =
                   Append(@, TrkPromise(t, "resolved", tracker.sharedResult))]
          ELSE IF tracker.isRejected
          THEN [tracker EXCEPT !.promises =
                   Append(@, TrkPromise(t, "rejected", tracker.sharedError))]
          ELSE [tracker EXCEPT !.promises = Append(@, TrkPromise(t, "pending", Undefined)),
                               !.individualPromises[t] = p,
                               !.handlers = @ \cup {p}]
    /\ UNCHANGED aborted

\* individualPromises.forEach: settle the promise of every signal not aborted
\* (settling a settled promise does nothing); then individualPromises.clear()
TrkSettleAll(trk, st, v) ==
    [trk EXCEPT
       !.promises = [p \in 1..Len(trk.promises) |->
                       IF /\ \E t \in Tokens : trk.individualPromises[t] = p /\ ~aborted[t]
                          /\ trk.promises[p].state = "pending"
                       THEN [trk.promises[p] EXCEPT !.state = st, !.val = v]
                       ELSE trk.promises[p]],
       !.individualPromises = [t \in Tokens |-> 0]]

TrkResolveAll(v) ==
    /\ tracker' =
          IF tracker.isResolved \/ tracker.isRejected THEN tracker
          ELSE TrkSettleAll([tracker EXCEPT !.isResolved = TRUE, !.sharedResult = v],
                            "resolved", v)
    /\ UNCHANGED aborted

TrkRejectAll(e) ==
    /\ tracker' =
          IF tracker.isResolved \/ tracker.isRejected THEN tracker
          ELSE TrkSettleAll([tracker EXCEPT !.isRejected = TRUE, !.sharedError = e],
                            "rejected", e)
    /\ UNCHANGED aborted

\* signal t fires: the abortHandlers registered on it run once each; the first
\* that finds an entry under the signal rejects that entry's promise and
\* deletes the entry, the others find none
TrkAbort(t) ==
    /\ ~aborted[t]
    /\ aborted' = [aborted EXCEPT ![t] = TRUE]
    /\ LET hs == {p \in tracker.handlers : tracker.promises[p].signal = t}
           info == tracker.individualPromises[t]
       IN
       tracker' =
          IF hs # {} /\ info # 0 /\ ~tracker.isResolved /\ ~tracker.isRejected
          THEN [tracker EXCEPT
                  !.promises[info] =
                      IF @.state = "pending"
                      THEN [@ EXCEPT !.state = "rejected", !.val = DOMAbortError]
                      ELSE @,
                  !.individualPromises[t] = 0,
                  !.handlers = @ \ hs]
          ELSE [tracker EXCEPT !.handlers = @ \ hs]

\* cleanup()
TrkCleanup ==
    /\ tracker' = [tracker EXCEPT !.individualPromises = [t \in Tokens |-> 0],
                                  !.cleaned = TRUE]
    /\ UNCHANGED aborted

TrkRest ==
    UNCHANGED <<listeners, mgrs, fetches, proms, store, call, rollingExpiration,
                fetcherKind, removed, winFetch, winProms, firedPending, hitFetch,
                lastDeleted, lastSet, finallys, ttl, anyOf, controller, keyMap, retry>>

NextTracker ==
    \/ \E t \in Tokens : TrkAddCaller(t) /\ TrkRest /\ UNCHANGED layerVars
    \/ \E v \in TrackerResults : TrkResolveAll(v) /\ TrkRest /\ UNCHANGED layerVars
    \/ \E e \in TrackerErrors : TrkRejectAll(e) /\ TrkRest /\ UNCHANGED layerVars
    \/ \E t \in Tokens : TrkAbort(t) /\ TrkRest /\ UNCHANGED layerVars
    \/ TrkCleanup /\ TrkRest /\ UNCHANGED layerVars

SpecTracker == InitThree /\ [][NextTracker]_vars

TrkSettled == tracker.isResolved \/ tracker.isRejected

\* a caller whose signal has aborted holds a promise rejected with an AbortError
C32_AbortedCallers ==
    \A p \in 1..Len(tracker.promises) :
        (~tracker.cleaned /\ ~TrkSettled /\ aborted[tracker.promises[p].signal])
        => tracker.promises[p] = TrkPromise(tracker.promises[p].signal, "rejected", DOMAbortError)

\* the first resolveAll / rejectAll gives every caller still waiting the shared
\* outcome; no promise changes once settled; a later call changes nothing
C32_SettleStep ==
    /\ \A p \in 1..Len(tracker.promises) :
          tracker.promises[p].state # "pending" => tracker'.promises[p] = tracker.promises[p]
    /\ (~tracker.cleaned /\ ~TrkSettled /\ tracker'.isResolved) =>
          \A p \in 1..Len(tracker.promises) :
             tracker.promises[p].state = "pending" =>
                /\ tracker'.promises[p].state = "resolved"
                /\ tracker'.promises[p].val = tracker'.sharedResult
    /\ (~tracker.cleaned /\ ~TrkSettled /\ tracker'.isRejected) =>
          \A p \in 1..Len(tracker.promises) :
             tracker.promises[p].state = "pending" =>
                /\ tracker'.promises[p].state = "rejected"
                /\ tracker'.promises[p].val = tracker'.sharedError
    /\ TrkSettled =>
          /\ tracker'.isResolved = tracker.isResolved
          /\ tracker'.isRejected = tracker.isRejected
          /\ tracker'.sharedResult = tracker.sharedResult
          /\ tracker'.sharedError = tracker.sharedError

\* C32: each caller gets its own outcome of the shared fetch: AbortError when
\* its signal aborts before the settlement, the shared result or error
\* otherwise, and only the first resolveAll / rejectAll has any effect.
C32_OwnOutcome == []C32_AbortedCallers /\ [][C32_SettleStep]_vars

\* C33: addCaller with an un-aborted signal on a settled tracker returns a
\* promise already resolved with the shared result, whatever the result value,
\* or already rejected with the shared error.
C33_LateCaller ==
    [][(/\ TrkSettled
        /\ Len(tracker'.promises) = Len(tracker.promises) + 1
        /\ ~aborted[tracker'.promises[Len(tracker'.promises)].signal])
       => LET q == tracker'.promises[Len(tracker'.promises)] IN
          IF tracker.isResolved
          THEN q.state = "resolved" /\ q.val = tracker.sharedResult
          ELSE q.state = "rejected" /\ q.val = tracker.sharedError]_vars

\* C39: once resolveAll or rejectAll has been called, or the caller's signal
\* has aborted, the promise addCaller returned is settled (every settlement
\* happens inside those calls), also for callers that pass the same signal.
C39_CallersSettle ==
    \A p \in 1..Len(tracker.promises) :
        (~tracker.cleaned /\ (TrkSettled \/ aborted[tracker.promises[p].signal]))
        => tracker.promises[p].state # "pending"


\* ------------------------------------------------------------ AsyncBackoffRetryPolicy
MaxRetryAttempts == 2
InvokeResults == {<<"success", "v">>, <<"error", "E">>, <<"value", "x">>}
BackoffStates == {<<"state", "s1">>, <<"state", "s2">>}
\* what the delegate function returns: a number, or {delay, state}
BackoffResults ==
    {[kind |-> "number", delay |-> 1, state |-> Undefined]}
        \cup {[kind |-> "object", delay |-> 1, state |-> s] : s \in BackoffStates}

\* instance(fn): state undefined, duration 0
FactoryInstance == [state |-> Undefined, duration |-> 0]

\* instance(fn, state, current).next, given what fn(context, state) returned
instanceNext(obj, res) ==
    IF res.kind = "number"
    THEN [state |-> obj.state, duration |-> res.delay]
    ELSE [state |-> res.state, duration |-> res.delay]

\* the object execute calls next on: the const factory, this.options.backoff;
\* AsyncDelegateBackoff.next starts from instance(this.fn) every time
NextReceiver(r) == FactoryInstance

\* mutant: one retry too many
shouldRetry_OffByOne(r) == ~r.signalAborted /\ r.retries <= r.maxAttempts

\* !signal.aborted && retries < this.options.maxAttempts
shouldRetry(r) == ~r.signalAborted /\ r.retries < r.maxAttempts

\* execute(fn, signal) is called on a policy with maxAttempts = n
RetryExecute(n) ==
    /\ retry.pc = "idle"
    /\ retry' = [retry EXCEPT !.pc = "invoke", !.maxAttempts = n]

\* executor.invoke(fn, {attempt: retries, signal}) comes back with res
RetryInvoke(res) ==
    /\ retry.pc = "invoke"
    /\ LET r == [retry EXCEPT !.calls = @ + 1, !.result = res] IN
       retry' =
          IF res[1] = "success"
          THEN [r EXCEPT !.pc = "returned", !.out = <<"return", res[2]>>]
          ELSE IF shouldRetry(r)
          THEN [r EXCEPT !.pc = "backoff"]
          ELSE IF res[1] = "error"
          THEN [r EXCEPT !.pc = "threw", !.gaveUp = @ + 1, !.out = <<"throw", res[2]>>]
          ELSE [r EXCEPT !.pc = "returned", !.gaveUp = @ + 1, !.out = <<"return", res[2]>>]

\* factory.next(context): the delegate function is called with the receiver's
\* state and returns res; onRetry is emitted
RetryBackoff(res) ==
    /\ retry.pc = "backoff"
    /\ LET recv == NextReceiver(retry)
           b == instanceNext(recv, res)
       IN
       retry' = [retry EXCEPT !.pc = "delay", !.backoff = b,
                              !.stateArgs = Append(@, recv.state),
                              !.stateRets = Append(@, b.state)]

\* factory.next(context) rejects: the await throws out of execute, which
\* rejects with that error; fn is not called again and onGiveUp is not emitted
RetryBackoffRejects ==
    /\ retry.pc = "backoff"
    /\ retry' = [retry EXCEPT !.pc = "rejected", !.out = <<"throw", "B">>,
                              !.stateArgs = Append(@, NextReceiver(retry).state),
                              !.stateRets = Append(@, NextReceiver(retry).state)]

\* the delay is over: continue, retries++
RetryDelay ==
    /\ retry.pc = "delay"
    /\ retry' = [retry EXCEPT !.pc = "invoke", !.retries = @ + 1]

RetrySignalAbort ==
    /\ retry.pc # "idle"
    /\ ~retry.signalAborted
    /\ retry' = [retry EXCEPT !.signalAborted = TRUE]

RetryRest ==
    UNCHANGED <<aborted, listeners, mgrs, fetches, proms, store, call, rollingExpiration,
                fetcherKind, removed, winFetch, winProms, firedPending, hitFetch,
                lastDeleted, lastSet, finallys, ttl, anyOf, controller, keyMap, tracker>>

NextRetry ==
    \/ \E n \in 0..MaxRetryAttempts : RetryExecute(n) /\ RetryRest /\ UNCHANGED layerVars
    \/ \E res \in InvokeResults : RetryInvoke(res) /\ RetryRest /\ UNCHANGED layerVars
    \/ \E res \in BackoffResults : RetryBackoff(res) /\ RetryRest /\ UNCHANGED layerVars
    \/ RetryBackoffRejects /\ RetryRest /\ UNCHANGED layerVars
    \/ RetryDelay /\ RetryRest /\ UNCHANGED layerVars
    \/ RetrySignalAbort /\ RetryRest /\ UNCHANGED layerVars

SpecRetry == InitThree /\ [][NextRetry]_vars

RetryDone == retry.pc \in {"returned", "threw", "rejected"}

\* C34: fn runs at most maxAttempts + 1 times, onGiveUp is emitted at most
\* once, and when execute is over its outcome is that of the last attempt
C34_Bounded ==
    /\ retry.calls <= retry.maxAttempts + 1
    /\ retry.gaveUp <= 1
    /\ retry.pc = "rejected" => retry.gaveUp = 0 /\ retry.calls = retry.retries + 1
    /\ retry.pc \in {"returned", "threw"} =>
          /\ retry.calls = retry.retries + 1
          /\ retry.result[1] = "success" =>
                retry.out = <<"return", retry.result[2]>> /\ retry.gaveUp = 0
          /\ retry.result[1] = "error" =>
                retry.out = <<"throw", retry.result[2]>> /\ retry.gaveUp = 1
          /\ retry.result[1] = "value" =>
                retry.out = <<"return", retry.result[2]>> /\ retry.gaveUp = 1

\* C34: nothing runs after execute is over; a failed attempt numbered
\* retry.retries is followed by another call of fn exactly when the signal is
\* not aborted and retries < maxAttempts, and by giving up otherwise
C34_Step ==
    /\ RetryDone => retry' = [retry EXCEPT !.signalAborted = retry'.signalAborted]
    /\ (retry'.calls = retry.calls + 1 /\ retry'.result[1] # "success") =>
          IF ~retry.signalAborted /\ retry.retries < retry.maxAttempts
          THEN retry'.pc = "backoff" /\ retry'.gaveUp = retry.gaveUp
          ELSE retry'.pc \in {"returned", "threw"} /\ retry'.gaveUp = retry.gaveUp + 1
    /\ (retry'.calls = retry.calls + 1 /\ retry'.result[1] = "success") =>
          retry'.pc = "returned"
    /\ retry.pc = "backoff" => retry'.pc \in {"backoff", "delay", "rejected"}
    /\ retry.pc = "delay" => retry'.pc \in {"delay", "invoke"}

C35_StateThreaded ==
    \A n \in 1..Len(retry.stateArgs) :
        n > 1 => retry.stateArgs[n] = retry.stateRets[n - 1]

====
